---- MODULE Spec2Model ----
(***************************************************************************)
(* The access-control and listing-visibility core of the bazeni-na-dan    *)
(* API: the bearer gate and the admin-secret gate (helpers/authRequired), *)
(* the token service (config/auth), the pool routes (routes/pools.ts) and *)
(* the account routes (routes/auth.ts).                                   *)
(*                                                                         *)
(* Every route handler performs at most one write on the listing store,   *)
(* and that write is a single MongoDB document operation, so one handler  *)
(* is one atomic step of the model: interleavings of requests are the     *)
(* interleavings of these steps.  The answer of a step stays in resp until *)
(* it is delivered; the clock advances between requests.                  *)
(*                                                                         *)
(* POST /auth/register and PUT /user read the user store and write it     *)
(* later, in a second call; between the two a request waits in `pending`  *)
(* and other requests take their steps.  Spec runs the pool routes over   *)
(* the users registered before start-up, AuthSpec runs the account routes.*)
(*                                                                         *)
(* Values of loosely typed request fields are pairs <<kind, payload>>.    *)
(* Numbers are kept in halves (<<"num", 2*x>>) so that a non-integer such *)
(* as 1.5 can be sent.  Text that the code trims or measures is a         *)
(* sequence of one-character strings.                                     *)
(***************************************************************************)
EXTENDS Integers, Sequences, FiniteSets, TLC

VARIABLES
    now,          \* the server clock (Date.now()), in abstract time units
    adminSecret,  \* ENV.ADMIN_SECRET, fixed at start-up
    users,        \* the User collection: _id -> document
    pools,        \* the Pool collection: _id -> document
    allocated,    \* number of pool ObjectIds generated so far (never reused)
    resp,         \* the request handled by the last step and its answer
    mail,         \* the reset e-mails handed to sendPasswordResetEmail
    pending       \* requests that have read the user store and not yet written

\* what only the account routes change
acct == <<mail, pending>>

vars == <<now, adminSecret, users, pools, allocated, resp, mail, pending>>

\* ------------------------------------------------------------------ bounds

MaxTime == 2
MaxPools == 2
\* users in the store, reset e-mails sent, requests between read and write
MaxUsers == 3
MaxResets == 2
MaxPending == 2

\* ------------------------------------------------------- configuration

\* ENV.JWT_TTL ('7d'), in the model's time units
JWT_TTL == 2

\* ENV.JWT_SECRET (config/auth refuses to start without it)
JWT_SECRET == "jwt-secret"

\* the values ENV.ADMIN_SECRET can have: unset ('' by default) or set
AdminSecretConfigs == {"", "adm1n"}

\* ------------------------------------------------------------ JS values

Undefined == <<"undefined", 0>>
NaN == <<"NaN", 0>>
Null == <<"null", 0>>

\* the number x/2, so Num2(3) is 1.5
Num2(twice) == <<"num", twice>>
Whole(x) == Num2(2 * x)

\* Number(v)
Number(v) == IF v[1] = "num" THEN v ELSE NaN

\* Number.isInteger(n)
NumberIsInteger(n) == n[1] = "num" /\ n[2] % 2 = 0

\* a text of n characters
Str(n) == [i \in 1..n |-> "x"]

IsSpace(c) == c = " "

RECURSIVE trimStart(_)
trimStart(s) ==
    IF s = <<>> THEN <<>>
    ELSE IF IsSpace(Head(s)) THEN trimStart(Tail(s)) ELSE s

RECURSIVE trimEnd(_)
trimEnd(s) ==
    IF s = <<>> THEN <<>>
    ELSE IF IsSpace(s[Len(s)]) THEN trimEnd(SubSeq(s, 1, Len(s) - 1)) ELSE s

\* String.prototype.trim
trim(s) == trimEnd(trimStart(s))

\* (an address kept as it was typed)
keepCase(s) == s

\* String.prototype.toLowerCase, on the letters the requests use
lowerChar(c) ==
    CASE c = "A" -> "a" [] c = "B" -> "b" [] c = "C" -> "c" [] c = "X" -> "x"
      [] OTHER -> c
toLowerCase(s) == [i \in DOMAIN s |-> lowerChar(s[i])]

\* ----------------------------------------------------------- ObjectIds

\* ObjectIds are numbers here.  The users registered before start-up hold
\* 1..NumUsers, the pools get the next ones in creation order, and one more
\* well-formed id belongs to no document.
\* bcrypt.hash(pw, 10), the salt left out
hashPassword(pw) == <<"bcrypt", pw>>

\* (a comparison that accepts every password)
verifyPasswordAny(pw, hash) == TRUE

\* bcrypt.compare(pw, hash)
verifyPassword(pw, hash) == hash = hashPassword(pw)

EmailA == <<"a", "@", "x", ".", "c">>
EmailB == <<"b", "@", "x", ".", "c">>
EmailC == <<"c", "@", "x", ".", "c">>
Mobile1 == <<"0", "6", "1", "1", "1", "1", "1", "1", "1">>
Mobile2 == <<"0", "6", "2", "2", "2", "2", "2", "2", "2">>

\* A user document: an absent avatarUrl is the empty text.  The schema has
\* no path for a reset token.
InitUsers ==
    <<[firstName |-> <<"A", "n", "a">>, lastName |-> <<"A", "n", "i", "c">>,
       email |-> EmailA, mobileNumber |-> Mobile1,
       passwordHash |-> hashPassword("secret1"), avatarUrl |-> <<>>,
       createdAt |-> <<"date", 0>>, updatedAt |-> <<"date", 0>>],
      [firstName |-> <<"B", "o", "r", "i", "s">>, lastName |-> <<"B", "a", "b", "i", "c">>,
       email |-> EmailB, mobileNumber |-> Mobile2,
       passwordHash |-> hashPassword("secret2"), avatarUrl |-> <<"b", ".", "j", "p", "g">>,
       createdAt |-> <<"date", 0>>, updatedAt |-> <<"date", 0>>]>>

NumUsers == Len(InitUsers)
UserIds == 1..NumUsers
PoolIds == (NumUsers + 1)..(NumUsers + MaxPools)
FreshId == NumUsers + MaxPools + 1
ObjectIds == UserIds \cup PoolIds \cup {FreshId}

\* a query or path string: a 24-hex ObjectId text, the same with blanks
\* around it, or some other text
Hex(n) == <<"hex", n>>
HexPadded(n) == <<"hexpad", n>>
Junk == <<"junk", 0>>

\* String.prototype.trim on such a string
trimId(v) == IF v[1] = "hexpad" THEN Hex(v[2]) ELSE v

\* routes/pools.ts: isObjectId
isObjectId(v) == v[1] = "hex"

\* routes/pools.ts: inRange, on numbers kept in halves
inRange(n, min, max) == n[1] = "num" /\ n[2] >= 2 * min /\ n[2] <= 2 * max

\* ------------------------------------------------------- token service

\* (a token service that signs every token for the first user)
signAccessFirstUser(userId, t) ==
    [kind |-> "jwt", sub |-> 1, iat |-> t, exp |-> t + JWT_TTL,
     key |-> JWT_SECRET]

\* config/auth: signAccess = jwt.sign({sub}, secret, {expiresIn}) at time t
signAccess(userId, t) ==
    [kind |-> "jwt", sub |-> userId, iat |-> t, exp |-> t + JWT_TTL,
     key |-> JWT_SECRET]

\* a token built by somebody who does not hold the server's secret
forged(userId, t) ==
    [kind |-> "jwt", sub |-> userId, iat |-> t, exp |-> t + JWT_TTL,
     key |-> "other-secret"]

\* text that is no JWT at all, and the empty text
GarbageToken == [kind |-> "garbage", sub |-> 0, iat |-> 0, exp |-> 0, key |-> ""]
EmptyToken == [kind |-> "empty", sub |-> 0, iat |-> 0, exp |-> 0, key |-> ""]

\* A token text as the handlers see it: `lead` blanks, then the credential.
TokenText(lead, cred) == [lead |-> lead, cred |-> cred]

\* (verification that looks at the expiry before the signature)
jwtVerifyExpiryFirst(token, secret, t) ==
    IF token.lead > 0 \/ token.cred.kind # "jwt"
    THEN [ok |-> FALSE, name |-> "JsonWebTokenError", sub |-> 0]
    ELSE IF t >= token.cred.exp
    THEN [ok |-> FALSE, name |-> "TokenExpiredError", sub |-> 0]
    ELSE IF token.cred.key # secret
    THEN [ok |-> FALSE, name |-> "JsonWebTokenError", sub |-> 0]
    ELSE [ok |-> TRUE, name |-> "", sub |-> token.cred.sub]

\* (verification that does not look at the expiry)
jwtVerifyIgnoringExpiry(token, secret, t) ==
    IF token.lead > 0 \/ token.cred.kind # "jwt" \/ token.cred.key # secret
    THEN [ok |-> FALSE, name |-> "JsonWebTokenError", sub |-> 0]
    ELSE [ok |-> TRUE, name |-> "", sub |-> token.cred.sub]

\* jsonwebtoken's verify(token, secret) at time t: the structure and the
\* signature are checked first, the expiry after them
jwtVerify(token, secret, t) ==
    IF token.lead > 0 \/ token.cred.kind # "jwt" \/ token.cred.key # secret
    THEN [ok |-> FALSE, name |-> "JsonWebTokenError", sub |-> 0]
    ELSE IF t >= token.cred.exp
    THEN [ok |-> FALSE, name |-> "TokenExpiredError", sub |-> 0]
    ELSE [ok |-> TRUE, name |-> "", sub |-> token.cred.sub]

\* config/auth: verifyAccess
verifyAccess(token, t) == jwtVerify(token, JWT_SECRET, t)

\* An Authorization header: no header (scheme "none"), or a scheme word,
\* `gap` blanks and a credential.  Scheme "" is a bare credential.
NoHeader == [scheme |-> "none", gap |-> 0, cred |-> EmptyToken]
Header(scheme, gap, cred) == [scheme |-> scheme, gap |-> gap, cred |-> cred]
Bearer(cred) == Header("Bearer", 1, cred)

\* header.startsWith('Bearer ')
startsWithBearer(h) == h.scheme = "Bearer" /\ h.gap >= 1

\* the text is empty
isEmptyText(token) == token.lead = 0 /\ token.cred.kind = "empty"

\* (a gate that also turns away the tokens issued before the account's last
\* change)
authRequiredSinceLastChange(h, t) ==
    LET token == IF startsWithBearer(h) THEN TokenText(h.gap - 1, h.cred)
                 ELSE TokenText(0, EmptyToken)
        v == jwtVerify(token, JWT_SECRET, t)
        stale == /\ v.ok
                 /\ v.sub \in DOMAIN users
                 /\ h.cred.iat < users[v.sub].updatedAt[2]
    IN  IF isEmptyText(token)
        THEN [pass |-> FALSE, status |-> 401, code |-> "AUTH_REQUIRED",
              message |-> "Auth required", userId |-> 0, verified |-> FALSE]
        ELSE IF v.ok /\ ~stale
        THEN [pass |-> TRUE, status |-> 200, code |-> "", message |-> "",
              userId |-> v.sub, verified |-> TRUE]
        ELSE [pass |-> FALSE, status |-> 401, code |-> "TOKEN_INVALID",
              message |-> "Unauthorized", userId |-> 0, verified |-> TRUE]

\* helpers/authRequired: authRequired.  `verified` tells whether jwt.verify
\* was called, userId is what the gate stores in req.userId.
authRequired(h, t) ==
    LET token == IF startsWithBearer(h) THEN TokenText(h.gap - 1, h.cred)
                 ELSE TokenText(0, EmptyToken)
        v == jwtVerify(token, JWT_SECRET, t)
    IN  IF isEmptyText(token)
        THEN [pass |-> FALSE, status |-> 401, code |-> "AUTH_REQUIRED",
              message |-> "Auth required", userId |-> 0, verified |-> FALSE]
        ELSE IF v.ok
        THEN [pass |-> TRUE, status |-> 200, code |-> "", message |-> "",
              userId |-> v.sub, verified |-> TRUE]
        ELSE [pass |-> FALSE, status |-> 401,
              code |-> IF v.name = "TokenExpiredError" THEN "TOKEN_EXPIRED"
                       ELSE "TOKEN_INVALID",
              message |-> "Unauthorized", userId |-> 0, verified |-> TRUE]

\* (a comparison of the lengths only)
adminSecretRequiredLengthOnly(provided, expected) ==
    IF expected = ""
    THEN [pass |-> FALSE, status |-> 500, message |-> "Server misconfigured"]
    ELSE IF Len(provided) # Len(expected)
    THEN [pass |-> FALSE, status |-> 401, message |-> "Unauthorized"]
    ELSE [pass |-> TRUE, status |-> 200, message |-> ""]

\* helpers/authRequired: adminSecretRequired; provided = req.header(..) || ''
adminSecretRequired(provided, expected) ==
    IF expected = ""
    THEN [pass |-> FALSE, status |-> 500, message |-> "Server misconfigured"]
    ELSE IF ~(Len(provided) = Len(expected) /\ provided = expected)
    THEN [pass |-> FALSE, status |-> 401, message |-> "Unauthorized"]
    ELSE [pass |-> TRUE, status |-> 200, message |-> ""]

\* ------------------------------------------------------------ the store

\* which optional fields a pool document has is told by their values:
\* Undefined stands for a path the document does not have
NoText == <<"undefined", <<>>>>
Text(s) == <<"str", s>>
NoFilters == <<"undefined", [heated |-> FALSE, petsAllowed |-> FALSE]>>
Filters(h, p) == <<"obj", [heated |-> h, petsAllowed |-> p]>>
NoArray == <<"undefined", <<>>>>
Array(a) == <<"arr", a>>
Date(t) == <<"date", t>>

\* models/pool: the schema's validators, run by Pool.create (the handler has
\* checked title, city, capacity and images before)
poolSchemaValid(doc) ==
    /\ doc.pricePerDay = Undefined \/ inRange(doc.pricePerDay, 1, 10000)
    /\ doc.description = NoText \/ Len(doc.description[2]) <= 800

\* models/pool: toObject / toJSON: _id becomes id, userId a string
toObject(doc) ==
    [k \in (DOMAIN doc \ {"_id"}) \cup {"id"} |->
        IF k = "id" THEN doc._id ELSE doc[k]]

\* the ids of a set of documents, newest first: sort({createdAt: -1}).  Ids
\* are generated in creation order, so the newest document has the largest.
RECURSIVE sortNewestFirst(_)
sortNewestFirst(ids) ==
    IF ids = {} THEN <<>>
    ELSE LET m == CHOOSE i \in ids : \A j \in ids : j <= i
         IN  <<m>> \o sortNewestFirst(ids \ {m})

\* ------------------------------------------------- listing visibility

\* (the public filter with the expiry bound taken strictly)
isPubliclyVisibleStrict(p, t) ==
    /\ p.isVisible = TRUE
    /\ (p.visibleUntil = Null \/ p.visibleUntil[2] > t)

\* GET /pools: the public filter
\*   { isVisible: true, $or: [{visibleUntil: null}, {visibleUntil: {$gte: now}}] }
isPubliclyVisible(p, t) ==
    /\ p.isVisible = TRUE
    /\ (p.visibleUntil = Null \/ p.visibleUntil[2] >= t)

\* (the filter that never leaves the public view)
listingFilterForPublicOnly(ownerIdQuery, t) == [kind |-> "public", userId |-> 0, at |-> t]

\* GET /pools: the filter chosen from the userId query parameter
listingFilterFor(ownerIdQuery, t) ==
    IF isObjectId(ownerIdQuery)
    THEN [kind |-> "owner", userId |-> ownerIdQuery[2], at |-> t]
    ELSE [kind |-> "public", userId |-> 0, at |-> t]

\* (a public filter that looks at the expiry only)
matchesUnexpired(filter, p) ==
    IF filter.kind = "owner" THEN p.userId = filter.userId
    ELSE p.visibleUntil = Null \/ p.visibleUntil[2] >= filter.at

\* a document matches a filter
matches(filter, p) ==
    IF filter.kind = "owner" THEN p.userId = filter.userId
    ELSE isPubliclyVisible(p, filter.at)

\* Pool.find(filter).sort({createdAt: -1})
PoolFind(filter) ==
    LET ids == {i \in DOMAIN pools : matches(filter, pools[i])}
    IN  [k \in 1..Cardinality(ids) |-> pools[sortNewestFirst(ids)[k]]]

\* (the check without the expiry)
isPublicIgnoringExpiry(pool, t) == pool.isVisible = TRUE

\* GET /pool: the check made on the document that was read
isPublic(pool, t) ==
    pool.isVisible = TRUE /\ (pool.visibleUntil = Null \/ pool.visibleUntil[2] >= t)

\* the owner block both GET routes add to a pool
ownerOf(p) ==
    LET known == p.userId \in DOMAIN users
        parts == IF known
                 THEN SelectSeq(<<trim(users[p.userId].firstName),
                                  trim(users[p.userId].lastName)>>,
                                LAMBDA x : x # <<>>)
                 ELSE <<>>
    IN  [name |-> IF parts = <<>> THEN <<"Domacin">> ELSE parts,
         avatarUrl |-> IF known THEN users[p.userId].avatarUrl ELSE <<>>,
         mobileNumber |-> IF known THEN users[p.userId].mobileNumber ELSE <<>>]

withOwner(p) == [pool |-> toObject(p), owner |-> ownerOf(p)]

\* ------------------------------------------------------------- requests

\* the Authorization headers a client sends at time t: none, a good token
\* under a scheme that is not Bearer, an empty credential, text that is no
\* token, a token signed with another key, and the tokens
\* signAccess has returned to the users: each logs in at start-up and again
\* when that first token runs out
LoginTimes == {0, JWT_TTL}
IssuedTokens(t) == {signAccess(u, i) : u \in UserIds, i \in {j \in LoginTimes : j <= t}}

GateHeaders(t) ==
    {NoHeader, Bearer(EmptyToken), Header("Basic", 1, signAccess(1, t)),
     Bearer(GarbageToken), Bearer(forged(1, 0))}
    \cup {Bearer(c) : c \in IssuedTokens(t)}

\* the x-admin-secret headers: missing, the configured value, a text of
\* the same length, a text of another length
AdminHeaders == {"", "adm1n", "adm1N", "guess"}

\* the ids a client puts in a path or a query
PathIds == {Junk} \cup {Hex(i) : i \in PoolIds \cup {FreshId}}
QueryIds == PathIds \cup {HexPadded(NumUsers + 1)}
OwnerQueries == {Undefined, Junk} \cup {Hex(i) : i \in UserIds \cup {FreshId}}
                \cup {HexPadded(1)}

\* req.body.pool of POST /pools and PUT /pools/:id
InMin ==
    [userId |-> Undefined, title |-> <<"V", "i", "l", "a">>, city |-> <<"M">>,
     capacity |-> Whole(1), images |-> Array(<<"a.jpg">>),
     pricePerDay |-> Undefined, description |-> NoText,
     filters |-> NoFilters, busyDays |-> NoArray]

InFull ==
    [userId |-> Hex(1), title |-> <<" ", "S", "u", "n", "c", "e", " ">>,
     city |-> <<"M", "o", " ">>, capacity |-> Whole(8),
     images |-> Array(<<"b.jpg", "c.jpg">>),
     pricePerDay |-> Whole(150), description |-> Text(<<" ", "o", "k">>),
     filters |-> Filters(TRUE, FALSE), busyDays |-> Array(<<"2025-06-12">>)]

InNoImages == [InMin EXCEPT !.images = Array(<<>>)]
InBadPrice == [InMin EXCEPT !.pricePerDay = Whole(0)]
InHalfCapacity == [InMin EXCEPT !.capacity = Num2(3)]

PoolInputs == {InMin, InFull, InNoImages, InBadPrice, InHalfCapacity}

\* req.body of PUT /pools/:id/visibility
UntilInputs == {Undefined, Junk, <<"iso", 1>>}

\* ------------------------------------------------------------ responses

\* What a step leaves in resp: the route, the request as far as the handler
\* read it (a part it never looked at is Unread), what the gate in front of
\* the handler found, and the answer.
NoGate == [pass |-> TRUE, status |-> 200, code |-> "", message |-> "",
           userId |-> 0, verified |-> FALSE]
AdminGate(g) == [pass |-> g.pass, status |-> g.status, code |-> "",
                 message |-> g.message, userId |-> 0, verified |-> FALSE]
Unread == <<"unread", 0>>
UnreadHeader == Header("unread", 0, EmptyToken)

Resp(op, req, gate, status, message, body) ==
    [op |-> op, req |-> req, gate |-> gate, status |-> status,
     message |-> message, body |-> body]

NoResp == Resp("none", Unread, NoGate, 0, "", <<>>)

\* the answer of a gate that stopped the request
Rejected(op, req, g) == Resp(op, req, g, g.status, g.message, <<>>)

\* ------------------------------------------------------------ GET /pools

\* req.query.userId: trimmed when it is a string
ownerIdQueryOf(q) == IF q = Undefined THEN Undefined ELSE trimId(q)

GetPoolsAnswer(q) ==
    LET found == PoolFind(listingFilterFor(ownerIdQueryOf(q), now))
    IN  Resp("GET /pools", [userId |-> q], NoGate, 200, "",
             [k \in DOMAIN found |-> withOwner(found[k])])

GetPools ==
    /\ resp = NoResp
    /\ \E q \in OwnerQueries : resp' = GetPoolsAnswer(q)
    /\ UNCHANGED <<now, adminSecret, users, pools, allocated, acct>>

\* ------------------------------------------------------------- GET /pool

\* req.headers.authorization?.replace(/^Bearer\s+/, ''): the text left of
\* the header, and whether there is a header at all
previewToken(h) ==
    IF h.scheme = "none" THEN [present |-> FALSE, text |-> TokenText(0, EmptyToken)]
    ELSE IF h.scheme = "Bearer" /\ h.gap >= 1
    THEN [present |-> TRUE, text |-> TokenText(0, h.cred)]
    ELSE IF h.scheme = ""
    THEN [present |-> TRUE, text |-> TokenText(h.gap, h.cred)]
    ELSE [present |-> TRUE, text |-> TokenText(0, GarbageToken)]

\* (isOwner without the comparison of the subject with the owner)
isOwnerAnySubject(pool, h, t) ==
    LET tk == previewToken(h)
    IN  tk.present /\ ~isEmptyText(tk.text) /\ verifyAccess(tk.text, t).ok

\* GET /pool: isOwner
isOwner(pool, h, t) ==
    LET tk == previewToken(h)
        v == verifyAccess(tk.text, t)
    IN  /\ tk.present
        /\ ~isEmptyText(tk.text)
        /\ v.ok
        /\ v.sub = pool.userId

\* GET /pool: may the caller see the document that was read
canView(pool, h, t) == isOwner(pool, h, t) \/ isPublic(pool, t)

PreviewHeaders(t) ==
    {NoHeader, Bearer(GarbageToken), Bearer(forged(1, t)),
     Header("", 0, signAccess(1, t))}
    \cup {Bearer(c) : c \in IssuedTokens(t)}

\* (GET /pool behind a gate that refuses a token it cannot verify)
GetPoolAnswerGated(q, h) ==
    LET id == trimId(q)
        op == "GET /pool"
        tk == previewToken(h)
    IN  IF ~isObjectId(id)
        THEN Resp(op, [id |-> q, auth |-> UnreadHeader], NoGate, 400, "Invalid id", <<>>)
        ELSE IF id[2] \notin DOMAIN pools
        THEN Resp(op, [id |-> q, auth |-> UnreadHeader], NoGate, 404, "Pool not found", <<>>)
        ELSE IF tk.present /\ ~verifyAccess(tk.text, now).ok
        THEN Resp(op, [id |-> q, auth |-> h], NoGate, 401, "Unauthorized", <<>>)
        ELSE IF ~canView(pools[id[2]], h, now)
        THEN Resp(op, [id |-> q, auth |-> h], NoGate, 404, "Pool not found", <<>>)
        ELSE Resp(op, [id |-> q, auth |-> h], NoGate, 200, "", <<withOwner(pools[id[2]])>>)

GetPoolAnswer(q, h) ==
    LET id == trimId(q)
        op == "GET /pool"
    IN  IF ~isObjectId(id)
        THEN Resp(op, [id |-> q, auth |-> UnreadHeader], NoGate, 400, "Invalid id", <<>>)
        ELSE IF id[2] \notin DOMAIN pools
        THEN Resp(op, [id |-> q, auth |-> UnreadHeader], NoGate, 404, "Pool not found", <<>>)
        ELSE IF ~canView(pools[id[2]], h, now)
        THEN Resp(op, [id |-> q, auth |-> h], NoGate, 404, "Pool not found", <<>>)
        ELSE Resp(op, [id |-> q, auth |-> h], NoGate, 200, "", <<withOwner(pools[id[2]])>>)

GetPool ==
    /\ resp = NoResp
    /\ \E q \in QueryIds, h \in PreviewHeaders(now) : resp' = GetPoolAnswer(q, h)
    /\ UNCHANGED <<now, adminSecret, users, pools, allocated, acct>>

\* ------------------------------------------------------------ POST /pools

\* typeof u === 'string' && u.trim() !== ''
isBlank(u) == u \in {"", " "}

\* POST /pools: the fields read from req.body.pool
parseCreate(input) ==
    [title |-> trim(input.title),
     city |-> trim(input.city),
     capacity |-> Number(input.capacity),
     images |-> IF input.images[1] = "arr"
                THEN SelectSeq(input.images[2], LAMBDA u : ~isBlank(u))
                ELSE <<>>,
     pricePerDay |-> IF input.pricePerDay = Undefined THEN Undefined
                     ELSE Number(input.pricePerDay),
     description |-> IF input.description[1] = "str"
                     THEN Text(trim(input.description[2])) ELSE NoText,
     filters |-> input.filters,
     busyDays |-> input.busyDays]

\* POST /pools: isValid
createIsValid(c) ==
    /\ Len(c.title) >= 3
    /\ Len(c.title) <= 40
    /\ Len(c.city) > 0
    /\ NumberIsInteger(c.capacity)
    /\ c.capacity[2] >= 2 * 1
    /\ c.capacity[2] <= 2 * 100
    /\ Len(c.images) >= 1
    /\ Len(c.images) <= 7

\* (the document with the owner taken from the body when it names one)
createDocOwnerFromBody(id, authenticatedUserId, input) ==
    LET c == parseCreate(input)
    IN  [_id |-> id,
         userId |-> IF input.userId[1] = "hex" THEN input.userId[2]
                    ELSE authenticatedUserId,
         title |-> c.title, city |-> c.city, capacity |-> c.capacity,
         images |-> c.images, pricePerDay |-> c.pricePerDay,
         description |-> c.description, filters |-> c.filters,
         busyDays |-> c.busyDays, isVisible |-> FALSE, visibleUntil |-> Null,
         views |-> 0, updatedAt |-> Date(now)]

\* POST /pools: the document handed to Pool.create, with the schema's
\* defaults for isVisible, visibleUntil and views and the updatedAt the
\* schema's timestamps option keeps (createdAt, written once, is carried by
\* the order of the ids).  The owner is req.userId; no other field of the
\* body than those parseCreate reads is used.
createDoc(id, authenticatedUserId, input) ==
    LET c == parseCreate(input)
    IN  [_id |-> id, userId |-> authenticatedUserId,
         title |-> c.title, city |-> c.city, capacity |-> c.capacity,
         images |-> c.images, pricePerDay |-> c.pricePerDay,
         description |-> c.description, filters |-> c.filters,
         busyDays |-> c.busyDays, isVisible |-> FALSE, visibleUntil |-> Null,
         views |-> 0, updatedAt |-> Date(now)]

\* the ObjectId the driver generates for the next document
nextPoolId == NumUsers + allocated + 1

PostPools ==
    /\ resp = NoResp
    /\ UNCHANGED <<now, adminSecret, users, acct>>
    /\ \E h \in GateHeaders(now) :
        LET g == authRequired(h, now)
            op == "POST /pools"
        IN  IF ~g.pass
            THEN /\ resp' = Rejected(op, [auth |-> h, pool |-> Unread], g)
                 /\ UNCHANGED <<pools, allocated>>
            ELSE \E input \in PoolInputs :
                LET c == parseCreate(input)
                    doc == createDoc(nextPoolId, g.userId, input)
                    req == [auth |-> h, pool |-> input]
                IN  IF ~createIsValid(c)
                    THEN /\ resp' = Resp(op, req, g, 400, "Invalid pool data", <<>>)
                         /\ UNCHANGED <<pools, allocated>>
                    ELSE IF ~poolSchemaValid(doc)
                    \* Pool.create rejects and nothing catches it: the answer
                    \* is the framework's 500, or none when the process stops
                    THEN /\ \E st \in {0, 500} :
                              resp' = Resp(op, req, g, st, "ValidationError", <<>>)
                         /\ UNCHANGED <<pools, allocated>>
                    ELSE /\ allocated < MaxPools
                         /\ pools' = [i \in DOMAIN pools \cup {nextPoolId} |->
                                         IF i = nextPoolId THEN doc ELSE pools[i]]
                         /\ allocated' = allocated + 1
                         /\ resp' = Resp(op, req, g, 201, "", <<toObject(doc)>>)

\* ------------------------------------------- PUT /pools/:id/visibility

\* new Date(rawUntil) for a text: a date, or Invalid Date
newDate(raw) == IF raw[1] = "iso" THEN Date(raw[2]) ELSE NaN

\* the text is not empty
truthy(raw) == raw # Undefined

\* (a $set that stores the visibleUntil of the body as it came)
setVisibilityAsSent(doc, isVisible, visibleUntil) ==
    [doc EXCEPT !.isVisible = isVisible,
                !.visibleUntil = visibleUntil,
                !.updatedAt = Date(now)]

\* the $set of the visibility route; the schema's timestamps option adds
\* updatedAt to every update
setVisibility(doc, isVisible, visibleUntil) ==
    [doc EXCEPT !.isVisible = isVisible,
                !.visibleUntil = IF isVisible THEN visibleUntil ELSE Null,
                !.updatedAt = Date(now)]

PutVisibility ==
    /\ resp = NoResp
    /\ UNCHANGED <<now, adminSecret, users, allocated, acct>>
    /\ \E a \in AdminHeaders :
        LET g == AdminGate(adminSecretRequired(a, adminSecret))
            op == "PUT /pools/:id/visibility"
            unread == [admin |-> a, id |-> Unread, isVisible |-> FALSE,
                       visibleUntil |-> Unread]
        IN  IF ~g.pass
            THEN /\ resp' = Rejected(op, unread, g)
                 /\ UNCHANGED pools
            ELSE \E id \in PathIds :
                IF ~isObjectId(id)
                THEN /\ resp' = Resp(op, [unread EXCEPT !.id = id], g, 400,
                                     "Invalid id", <<>>)
                     /\ UNCHANGED pools
                ELSE \E isVisible \in BOOLEAN, rawUntil \in UntilInputs :
                    LET visibleUntil == IF truthy(rawUntil) THEN newDate(rawUntil)
                                        ELSE Null
                        req == [admin |-> a, id |-> id, isVisible |-> isVisible,
                                visibleUntil |-> rawUntil]
                    IN  IF truthy(rawUntil) /\ visibleUntil = NaN
                        THEN /\ resp' = Resp(op, req, g, 400, "Invalid visibleUntil", <<>>)
                             /\ UNCHANGED pools
                        ELSE IF id[2] \notin DOMAIN pools
                        THEN /\ resp' = Resp(op, req, g, 404, "Pool not found", <<>>)
                             /\ UNCHANGED pools
                        ELSE /\ pools' = [pools EXCEPT ![id[2]] =
                                             setVisibility(@, isVisible, visibleUntil)]
                             /\ resp' = Resp(op, req, g, 200, "",
                                             <<toObject(pools'[id[2]])>>)

\* -------------------------------------------- owner-scoped mutations

\* (a match on the id alone)
ownedMatchIdOnly(id, userId) == id \in DOMAIN pools

\* (a match on the id, the caller only checked to be a user)
ownedMatchAnyUser(id, userId) == id \in DOMAIN pools /\ userId \in UserIds

\* the match condition { _id, userId } of findOneAndDelete / findOneAndUpdate
ownedMatch(id, userId) == id \in DOMAIN pools /\ pools[id].userId = userId

DeletePool ==
    /\ resp = NoResp
    /\ UNCHANGED <<now, adminSecret, users, allocated, acct>>
    /\ \E h \in GateHeaders(now) :
        LET g == authRequired(h, now)
            op == "DELETE /pools/:id"
        IN  IF ~g.pass
            THEN /\ resp' = Rejected(op, [auth |-> h, id |-> Unread], g)
                 /\ UNCHANGED pools
            ELSE \E id \in PathIds :
                LET req == [auth |-> h, id |-> id]
                IN  IF ~isObjectId(id)
                    THEN /\ resp' = Resp(op, req, g, 400, "Invalid id", <<>>)
                         /\ UNCHANGED pools
                    ELSE IF ~ownedMatch(id[2], g.userId)
                    THEN /\ resp' = Resp(op, req, g, 404, "Pool not found", <<>>)
                         /\ UNCHANGED pools
                    ELSE /\ pools' = [i \in DOMAIN pools \ {id[2]} |-> pools[i]]
                         /\ resp' = Resp(op, req, g, 204, "", <<>>)

\* PUT /pools/:id: the fields read from req.body.pool
parseUpdate(input) ==
    [title |-> trim(input.title),
     city |-> trim(input.city),
     capacity |-> Number(input.capacity),
     images |-> IF input.images[1] = "arr" THEN input.images[2] ELSE <<>>,
     pricePerDay |-> IF input.pricePerDay = Undefined THEN Undefined
                     ELSE Number(input.pricePerDay),
     description |-> IF input.description[1] = "str"
                     THEN Text(trim(input.description[2])) ELSE NoText,
     filters |-> input.filters,
     busyDays |-> input.busyDays]

\* PUT /pools/:id: isValid
updateIsValid(u) ==
    /\ Len(u.title) >= 3
    /\ Len(u.title) <= 40
    /\ u.city # <<>>
    /\ inRange(u.capacity, 1, 100)
    /\ inRange(Whole(Len(u.images)), 1, 7)
    /\ (u.pricePerDay = Undefined \/ inRange(u.pricePerDay, 1, 10000))
    /\ (u.description = NoText \/ inRange(Whole(Len(u.description[2])), 1, 300))

\* (the update as a replacement of the document: the schema's defaults
\* come back for what the body does not carry)
applyUpdateReplacing(doc, u) ==
    [doc EXCEPT !.title = u.title, !.city = u.city, !.capacity = u.capacity,
                !.images = u.images, !.filters = u.filters,
                !.pricePerDay = u.pricePerDay, !.description = u.description,
                !.busyDays = u.busyDays,
                !.isVisible = FALSE, !.visibleUntil = Null,
                !.updatedAt = Date(now)]

\* PUT /pools/:id: the { $set, $unset } applied to the matched document.
\* An undefined filters in $set is dropped by Mongoose before the update is
\* sent, so the stored filters stay.  The schema's timestamps option adds
\* updatedAt.
applyUpdate(doc, u) ==
    [doc EXCEPT !.title = u.title,
                !.city = u.city,
                !.capacity = u.capacity,
                !.images = u.images,
                !.filters = IF u.filters = NoFilters THEN @ ELSE u.filters,
                !.pricePerDay = IF u.pricePerDay # Undefined THEN u.pricePerDay
                                ELSE Undefined,
                !.description = IF u.description # NoText THEN u.description
                                ELSE NoText,
                !.busyDays = IF u.busyDays[1] = "arr" THEN u.busyDays ELSE NoArray,
                !.updatedAt = Date(now)]

PutPool ==
    /\ resp = NoResp
    /\ UNCHANGED <<now, adminSecret, users, allocated, acct>>
    /\ \E h \in GateHeaders(now) :
        LET g == authRequired(h, now)
            op == "PUT /pools/:id"
        IN  IF ~g.pass
            THEN /\ resp' = Rejected(op, [auth |-> h, id |-> Unread, pool |-> Unread], g)
                 /\ UNCHANGED pools
            ELSE \E id \in PathIds :
                IF ~isObjectId(id)
                THEN /\ resp' = Resp(op, [auth |-> h, id |-> id, pool |-> Unread], g,
                                     400, "Invalid id", <<>>)
                     /\ UNCHANGED pools
                ELSE \E input \in PoolInputs :
                    LET u == parseUpdate(input)
                        req == [auth |-> h, id |-> id, pool |-> input]
                    IN  IF ~updateIsValid(u)
                        THEN /\ resp' = Resp(op, req, g, 400, "Invalid pool data", <<>>)
                             /\ UNCHANGED pools
                        ELSE IF ~ownedMatch(id[2], g.userId)
                        THEN /\ resp' = Resp(op, req, g, 404, "Pool not found", <<>>)
                             /\ UNCHANGED pools
                        ELSE /\ pools' = [pools EXCEPT ![id[2]] = applyUpdate(@, u)]
                             /\ resp' = Resp(op, req, g, 200, "",
                                             <<toObject(pools'[id[2]])>>)

\* ------------------------------------------------- the account routes

PASSWORD_MIN == 6
PASSWORD_MAX == 25

Digits == {"0", "1", "2", "3", "4", "5", "6", "7", "8", "9"}

\* isEmail: /^[^\s@]+@[^\s@]+\.[^\s@]+$/
isEmail(v) ==
    LET ats == {i \in DOMAIN v : v[i] = "@"}
    IN  /\ Cardinality(ats) = 1
        /\ \A i \in DOMAIN v : ~IsSpace(v[i])
        /\ \E a \in ats :
              /\ a > 1
              /\ \E d \in (a + 2)..(Len(v) - 1) : v[d] = "."

\* isDigits: /^\d{9,15}$/
isDigits(v) ==
    /\ Len(v) >= 9
    /\ Len(v) <= 15
    /\ \A i \in DOMAIN v : v[i] \in Digits

\* password.length >= PASSWORD_MIN && password.length <= PASSWORD_MAX
passOk(password) == Len(password) >= PASSWORD_MIN /\ Len(password) <= PASSWORD_MAX

\* the paths of userSchema; a value set on a document under another name is
\* not written by save(), and no stored document has it
UserSchemaPaths ==
    {"firstName", "lastName", "email", "mobileNumber", "passwordHash",
     "avatarUrl", "createdAt", "updatedAt"}

\* (a transform that keeps every stored path)
userToObjectRaw(id, doc) ==
    [k \in DOMAIN doc \cup {"id"} |-> IF k = "id" THEN id ELSE doc[k]]

\* userSchema's toObject transform: id for _id, no passwordHash
userToObject(id, doc) ==
    [k \in (DOMAIN doc \ {"passwordHash"}) \cup {"id"} |->
        IF k = "id" THEN id ELSE doc[k]]

\* User.findOne({ email })
findByEmail(email) == {i \in DOMAIN users : users[i].email = email}

\* Pool.countDocuments({ userId })
publishedPoolsCount(id) == Cardinality({i \in DOMAIN pools : pools[i].userId = id})

\* the body of a successful register or login answer
authSuccess(id, doc, t) ==
    LET userObj == userToObject(id, doc)
    IN  [user |-> [k \in DOMAIN userObj \cup {"publishedPoolsCount"} |->
                     IF k = "publishedPoolsCount" THEN publishedPoolsCount(id)
                     ELSE userObj[k]],
         accessToken |-> signAccess(id, t)]

\* the connection a new waiting request gets
freeConn == CHOOSE c \in 1..MaxPending :
                /\ \A p \in pending : p.conn # c
                /\ \A d \in 1..(c - 1) : \E p \in pending : p.conn = d

\* ------------------------------------------------- POST /auth/register

\* req.body of POST /auth/register: a new address written with blanks and
\* capitals, Ana's address in capitals, the same with a short password, an
\* address without a dot
RegNew ==
    [firstName |-> <<"C", "i", "r", "a">>, lastName |-> <<"C", "u", "k">>,
     email |-> <<" ", "C", "@", "X", ".", "c">>,
     mobileNumber |-> <<"0", "6", "3", "3", "3", "3", "3", "3", "3">>,
     password |-> "secret3"]
RegTaken == [RegNew EXCEPT !.email = <<"A", "@", "x", ".", "c">>]
RegTakenShortPw == [RegTaken EXCEPT !.password = "short"]
RegBadEmail == [RegNew EXCEPT !.email = <<"c", "@", "x">>]
RegisterInputs == {RegNew, RegTaken, RegTakenShortPw, RegBadEmail}

\* the bodies that arrive now: while a request waits for its write, the
\* ones that race with it for the same address
RegisterBodies == IF pending = {} THEN RegisterInputs ELSE {RegNew}

\* the fields read from req.body
parseRegister(body) ==
    [firstName |-> trim(body.firstName),
     lastName |-> trim(body.lastName),
     email |-> toLowerCase(trim(body.email)),
     mobileNumber |-> trim(body.mobileNumber),
     password |-> body.password]

registerIsValid(r) ==
    /\ r.firstName # <<>>
    /\ r.lastName # <<>>
    /\ isEmail(r.email)
    /\ isDigits(r.mobileNumber)
    /\ passOk(r.password)

\* the document User.create builds
newUser(r, t) ==
    [firstName |-> r.firstName, lastName |-> r.lastName, email |-> r.email,
     mobileNumber |-> r.mobileNumber, passwordHash |-> hashPassword(r.password),
     avatarUrl |-> <<>>, createdAt |-> Date(t), updatedAt |-> Date(t)]

\* validation and the find-by-email check; a request that passes waits for
\* its User.create
Register ==
    /\ resp = NoResp
    /\ UNCHANGED <<now, adminSecret, users, pools, allocated, mail>>
    /\ \E body \in RegisterBodies :
        LET r == parseRegister(body)
            op == "POST /auth/register"
        IN  IF ~registerIsValid(r)
            THEN /\ resp' = Resp(op, body, NoGate, 400, "Invalid data", <<>>)
                 /\ UNCHANGED pending
            ELSE IF findByEmail(r.email) # {}
            THEN /\ resp' = Resp(op, body, NoGate, 409, "Email", <<>>)
                 /\ UNCHANGED pending
            ELSE /\ Cardinality(pending) < MaxPending
                 /\ pending' = pending \cup
                        {[conn |-> freeConn, kind |-> "register", req |-> body,
                          gate |-> NoGate, userId |-> 0, doc |-> newUser(r, now),
                          modified |-> {}]}
                 /\ UNCHANGED resp

\* (a collection without the unique index)
noUniqueIndex(id, email) == FALSE

\* the unique index on email refuses the insert (E11000)
duplicateKey(id, email) == \E j \in DOMAIN users : j # id /\ users[j].email = email

\* User.create and the answer
RegisterWrite ==
    /\ resp = NoResp
    /\ UNCHANGED <<now, adminSecret, pools, allocated, mail>>
    /\ \E p \in pending :
        LET op == "POST /auth/register"
            id == Len(users) + 1
        IN  /\ p.kind = "register"
            /\ pending' = pending \ {p}
            /\ IF duplicateKey(0, p.doc.email)
               THEN /\ resp' = Resp(op, p.req, NoGate, 409, "Email already used", <<>>)
                    /\ UNCHANGED users
               ELSE /\ Len(users) < MaxUsers
                    /\ users' = Append(users, p.doc)
                    /\ resp' = Resp(op, p.req, NoGate, 201, "",
                                    <<authSuccess(id, p.doc, now)>>)

\* --------------------------------------------------- POST /auth/login

\* req.body of POST /auth/login
LoginEmails ==
    {<<"A", "@", "x", ".", "c", " ">>, EmailC, <<"a", "@", "x">>}
LoginPasswords == {"secret1", "newpass4", "short"}

Login ==
    /\ resp = NoResp
    /\ UNCHANGED <<now, adminSecret, users, pools, allocated, acct>>
    /\ \E e \in LoginEmails, password \in LoginPasswords :
        LET email == toLowerCase(trim(e))
            op == "POST /auth/login"
            req == [email |-> e, password |-> password]
            denied == Resp(op, req, NoGate, 401, "Invalid credentials", <<>>)
            found == findByEmail(email)
        IN  IF ~isEmail(email) \/ ~passOk(password)
            THEN resp' = denied
            ELSE IF found = {}
            THEN resp' = denied
            ELSE \E id \in found :
                IF ~verifyPassword(password, users[id].passwordHash)
                THEN resp' = denied
                ELSE resp' = Resp(op, req, NoGate, 200, "",
                                  <<authSuccess(id, users[id], now)>>)

\* ------------------------------------------- POST /auth/forgot-password

\* the life of a reset token: two hours, on the clock of the model
RESET_TTL == 1

HexDigits == <<"0", "1", "2", "3", "4", "5", "6", "7", "8", "9">>

\* randomBytes(32).toString('hex'): a text no earlier call has returned
randomHex(k) == <<"f", HexDigits[k + 1]>>

\* the paths of a document that save() writes: the modified ones the schema
\* knows
tracked(names) == names \cap UserSchemaPaths

\* user.save(): the modified paths go to the stored document, and updatedAt
\* with them
saved(stored, doc, modified, t) ==
    [k \in DOMAIN stored |->
        IF k \in tracked(modified) THEN doc[k]
        ELSE IF k = "updatedAt" /\ tracked(modified) # {} THEN Date(t)
        ELSE stored[k]]

ForgotEmails ==
    {<<" ", "B", "@", "x", ".", "c">>, <<"d", "@", "x", ".", "c">>, <<"b", "@", "x">>}

\* (a handler that tells an unknown address from a known one)
ForgotPasswordRevealing ==
    /\ resp = NoResp
    /\ UNCHANGED <<now, adminSecret, pools, allocated, pending>>
    /\ \E e \in ForgotEmails :
        LET email == toLowerCase(trim(e))
            op == "POST /auth/forgot-password"
            req == [email |-> e]
            found == findByEmail(email)
        IN  IF ~isEmail(email)
            THEN /\ resp' = Resp(op, req, NoGate, 400, "Invalid email", <<>>)
                 /\ UNCHANGED <<users, mail>>
            ELSE IF found = {}
            THEN /\ resp' = Resp(op, req, NoGate, 404, "User not found", <<>>)
                 /\ UNCHANGED <<users, mail>>
            ELSE \E id \in found :
                LET token == randomHex(Len(mail) + 1)
                    expires == now + RESET_TTL
                IN  /\ Len(mail) < MaxResets
                    /\ users' = [users EXCEPT ![id] =
                                    saved(@, @, {"resetPasswordToken",
                                                 "resetPasswordExpires"}, now)]
                    /\ resp' = Resp(op, req, NoGate, 200, "OK", <<>>)
                    /\ mail' = Append(mail, [to |-> users[id].email, userId |-> id,
                                             token |-> token, expires |-> expires])

ForgotPassword ==
    /\ resp = NoResp
    /\ UNCHANGED <<now, adminSecret, pools, allocated, pending>>
    /\ \E e \in ForgotEmails :
        LET email == toLowerCase(trim(e))
            op == "POST /auth/forgot-password"
            req == [email |-> e]
            found == findByEmail(email)
        IN  IF ~isEmail(email)
            THEN /\ resp' = Resp(op, req, NoGate, 400, "Invalid email", <<>>)
                 /\ UNCHANGED <<users, mail>>
            ELSE IF found = {}
            THEN /\ resp' = Resp(op, req, NoGate, 200, "OK", <<>>)
                 /\ UNCHANGED <<users, mail>>
            ELSE \E id \in found :
                LET token == randomHex(Len(mail) + 1)
                    expires == now + RESET_TTL
                IN  /\ Len(mail) < MaxResets
                    /\ users' = [users EXCEPT ![id] =
                                    saved(@, @, {"resetPasswordToken",
                                                 "resetPasswordExpires"}, now)]
                    /\ resp' = Resp(op, req, NoGate, 200, "OK", <<>>)
                    /\ mail' = Append(mail, [to |-> users[id].email, userId |-> id,
                                             token |-> token, expires |-> expires])

\* -------------------------------------------- POST /auth/reset-password

\* (a lookup that takes every token that was mailed)
resetLookupMailed(token, t) ==
    {mail[i].userId : i \in {j \in DOMAIN mail : mail[j].token = token}}

\* User.findOne({ resetPasswordToken: token, resetPasswordExpires: { $gt: now } })
resetLookup(token, t) ==
    {i \in DOMAIN users :
        /\ "resetPasswordToken" \in DOMAIN users[i]
        /\ users[i].resetPasswordToken = token
        /\ users[i].resetPasswordExpires > t}

\* req.body.token: missing, blank, a text the server never produced, the
\* texts of the e-mails
ResetTokens ==
    {<<>>, <<" ">>, randomHex(0)} \cup {mail[i].token \o <<" ">> : i \in DOMAIN mail}

\* the other fields of req.body: as ResetPasswordRequest documents it, with
\* the new password under `password`, the same with a short password
ResetFields ==
    {[password |-> "", newPassword |-> "newpass4"],
     [password |-> "newpass4", newPassword |-> ""],
     [password |-> "short", newPassword |-> ""]}

ResetPassword ==
    /\ resp = NoResp
    /\ UNCHANGED <<now, adminSecret, pools, allocated, acct>>
    /\ \E rawToken \in ResetTokens, f \in ResetFields :
        LET token == trim(rawToken)
            newPassword == f.password
            op == "POST /auth/reset-password"
            req == [token |-> rawToken, password |-> f.password,
                    newPassword |-> f.newPassword]
            found == resetLookup(token, now)
        IN  IF token = <<>> \/ ~passOk(newPassword)
            THEN /\ resp' = Resp(op, req, NoGate, 400, "Invalid data", <<>>)
                 /\ UNCHANGED users
            ELSE IF found = {}
            THEN /\ resp' = Resp(op, req, NoGate, 400, "Invalid or expired token", <<>>)
                 /\ UNCHANGED users
            ELSE \E id \in found :
                /\ users' = [users EXCEPT ![id] =
                                saved(@, [@ EXCEPT !.passwordHash = hashPassword(newPassword)],
                                      {"passwordHash", "resetPasswordToken",
                                       "resetPasswordExpires"}, now)]
                /\ resp' = Resp(op, req, NoGate, 200, "Password updated", <<>>)

\* ------------------------------------------------------------ PUT /user

\* the Authorization headers of the account routes: none, a token signed
\* with another key, and the tokens register and login have returned
AccountTokens(t) ==
    UNION {{signAccess(u, i) :
                i \in {j \in {users[u].createdAt[2]} \cup LoginTimes :
                          users[u].createdAt[2] <= j /\ j <= t}} :
           u \in DOMAIN users}
AccountHeaders(t) ==
    IF pending = {}
    THEN {NoHeader, Bearer(forged(1, t))} \cup {Bearer(c) : c \in AccountTokens(t)}
    ELSE {Bearer(c) : c \in {k \in AccountTokens(t) : k.exp > t}}

PasswordChange(current, new) ==
    <<"obj", [currentPassword |-> current, newPassword |-> new]>>

\* req.body of PUT /user
UpdProfile ==
    [firstName |-> <<"E", "v", "a", " ">>, lastName |-> <<"E", "k">>,
     email |-> <<"C", "@", "X", ".", "c", " ">>,
     mobileNumber |-> <<"0", "6", "4", "4", "4", "4", "4", "4", "4">>,
     avatarUrl |-> Null, passwordChange |-> Undefined]
UpdPassword ==
    [UpdProfile EXCEPT !.email = EmailA,
                       !.avatarUrl = Text(<<" ", "n", ".", "p", "n", "g">>),
                       !.passwordChange = PasswordChange("secret1", "newpass4")]
UpdShortPassword ==
    [UpdPassword EXCEPT !.passwordChange = PasswordChange("secret1", "short")]
UpdWrongPassword ==
    [UpdPassword EXCEPT !.passwordChange = PasswordChange("wrong99", "newpass4")]
UpdBlankName == [UpdProfile EXCEPT !.firstName = <<" ">>, !.avatarUrl = Undefined]
PutUserInputs ==
    {UpdProfile, UpdPassword, UpdShortPassword, UpdWrongPassword, UpdBlankName}

\* the bodies that arrive now: while a request waits for its write, the
\* one that races with it for the same address
PutUserBodies == IF pending = {} THEN PutUserInputs ELSE {UpdProfile}

\* the fields read from req.body
parseUser(body) ==
    [firstName |-> trim(body.firstName),
     lastName |-> trim(body.lastName),
     email |-> toLowerCase(trim(body.email)),
     mobileNumber |-> trim(body.mobileNumber),
     avatarUrl |-> IF body.avatarUrl[1] = "str" THEN Text(trim(body.avatarUrl[2]))
                   ELSE IF body.avatarUrl = Null THEN Null
                   ELSE Undefined,
     passwordChange |-> body.passwordChange]

userIsValid(r) ==
    /\ r.firstName # <<>>
    /\ r.lastName # <<>>
    /\ isEmail(r.email)
    /\ isDigits(r.mobileNumber)

\* the assignments to the loaded document
assigned(user, r) ==
    [user EXCEPT
        !.passwordHash = IF truthy(r.passwordChange)
                         THEN hashPassword(r.passwordChange[2].newPassword)
                         ELSE @,
        !.firstName = r.firstName,
        !.lastName = r.lastName,
        !.email = r.email,
        !.mobileNumber = r.mobileNumber,
        !.avatarUrl = IF r.avatarUrl = Undefined THEN @
                      ELSE IF r.avatarUrl[1] = "str" THEN r.avatarUrl[2]
                      ELSE <<>>]

\* (a save that leaves the password hash out)
modifiedPathsNoPassword(user, doc) ==
    {k \in DOMAIN user : doc[k] # user[k]} \ {"passwordHash"}

\* the paths the assignments have changed
modifiedPaths(user, doc) == {k \in DOMAIN user : doc[k] # user[k]}

\* the gate, validation, the reads and the password check; a request that
\* passes them waits for its save
PutUser ==
    /\ resp = NoResp
    /\ UNCHANGED <<now, adminSecret, users, pools, allocated, mail>>
    /\ \E h \in AccountHeaders(now) :
        LET g == authRequired(h, now)
            op == "PUT /user"
            unread == [auth |-> h, body |-> Unread]
        IN  IF ~g.pass
            THEN /\ resp' = Rejected(op, unread, g)
                 /\ UNCHANGED pending
            ELSE \E body \in PutUserBodies :
                LET r == parseUser(body)
                    req == [auth |-> h, body |-> body]
                    userId == g.userId
                    answer(status, message) ==
                        /\ resp' = Resp(op, req, g, status, message, <<>>)
                        /\ UNCHANGED pending
                IN  IF ~userIsValid(r)
                    THEN answer(400, "Invalid data")
                    ELSE IF userId \notin DOMAIN users
                    THEN answer(404, "User not found")
                    ELSE LET user == users[userId]
                             pc == r.passwordChange
                         IN  IF r.email # user.email /\ findByEmail(r.email) # {}
                             THEN answer(409, "Email")
                             ELSE IF truthy(pc) /\
                                     (\/ pc[2].currentPassword = ""
                                      \/ pc[2].newPassword = ""
                                      \/ ~passOk(pc[2].newPassword))
                             THEN answer(400, "Invalid password change")
                             ELSE IF truthy(pc) /\
                                     ~verifyPassword(pc[2].currentPassword,
                                                     user.passwordHash)
                             THEN answer(401, "Current password incorrect")
                             ELSE /\ Cardinality(pending) < MaxPending
                                  /\ pending' = pending \cup
                                        {[conn |-> freeConn, kind |-> "putUser",
                                          req |-> req, gate |-> g, userId |-> userId,
                                          doc |-> assigned(user, r),
                                          modified |-> modifiedPaths(user, assigned(user, r))]}
                                  /\ UNCHANGED resp

\* user.save() and the answer
PutUserSave ==
    /\ resp = NoResp
    /\ UNCHANGED <<now, adminSecret, pools, allocated, mail>>
    /\ \E p \in pending :
        LET op == "PUT /user"
            id == p.userId
        IN  /\ p.kind = "putUser"
            /\ pending' = pending \ {p}
            /\ IF "email" \in p.modified /\ duplicateKey(id, p.doc.email)
               THEN /\ resp' = Resp(op, p.req, p.gate, 409, "Email", <<>>)
                    /\ UNCHANGED users
               ELSE /\ users' = [users EXCEPT ![id] = saved(@, p.doc, p.modified, now)]
                    /\ resp' = Resp(op, p.req, p.gate, 200, "",
                                    <<[user |-> userToObject(id,
                                          saved(p.doc, p.doc, p.modified, now))]>>)

\* ------------------------------------------------------ GET /admin/users

\* the orders of the stored users that sort({ createdAt: -1 }) can give
newestFirst ==
    {f \in [DOMAIN users -> DOMAIN users] :
        /\ \A i, j \in DOMAIN users : i # j => f[i] # f[j]
        /\ \A i, j \in DOMAIN users :
              i < j => users[f[i]].createdAt[2] >= users[f[j]].createdAt[2]}

GetAdminUsers ==
    /\ resp = NoResp
    /\ UNCHANGED <<now, adminSecret, users, pools, allocated, acct>>
    /\ \E a \in AdminHeaders :
        LET g == AdminGate(adminSecretRequired(a, adminSecret))
            op == "GET /admin/users"
            req == [admin |-> a]
        IN  IF ~g.pass
            THEN resp' = Rejected(op, req, g)
            ELSE \E f \in newestFirst :
                resp' = Resp(op, req, g, 200, "",
                             <<[users |-> [i \in DOMAIN users |->
                                              userToObject(f[i], users[f[i]])]]>>)

\* ------------------------------------------------------- the system

\* the answer leaves the server; the next request can be looked at
Deliver ==
    /\ resp # NoResp
    /\ resp' = NoResp
    /\ UNCHANGED <<now, adminSecret, users, pools, allocated, acct>>

\* time passes between two requests (a request that waits between its read
\* and its write takes less than one unit of the clock)
Tick ==
    /\ resp = NoResp
    /\ pending = {}
    /\ now < MaxTime
    /\ now' = now + 1
    /\ UNCHANGED <<adminSecret, users, pools, allocated, resp, acct>>

\* the server starts on a database that holds the registered users and no
\* pool yet
Init ==
    /\ now = 0
    /\ adminSecret \in AdminSecretConfigs
    /\ users = InitUsers
    /\ pools = <<>>
    /\ allocated = 0
    /\ resp = NoResp
    /\ mail = <<>>
    /\ pending = {}

Next ==
    \/ Tick
    \/ Deliver
    \/ GetPools
    \/ GetPool
    \/ PostPools
    \/ PutVisibility
    \/ DeletePool
    \/ PutPool
    \/ GetAdminUsers

Spec == Init /\ [][Next]_vars

\* the account routes, on the same database before the first listing
AuthNext ==
    \/ Tick
    \/ Deliver
    \/ Register
    \/ RegisterWrite
    \/ PutUser
    \/ PutUserSave
    \/ pending = {} /\ Login
    \/ pending = {} /\ ForgotPassword
    \/ pending = {} /\ ResetPassword
    \/ pending = {} /\ GetAdminUsers

AuthSpec == Init /\ [][AuthNext]_vars

\* the account routes with one request at a time: a request arrives when no
\* other waits for its write
SeqNext ==
    \/ Tick
    \/ Deliver
    \/ pending = {} /\ Register
    \/ RegisterWrite
    \/ pending = {} /\ PutUser
    \/ PutUserSave
    \/ pending = {} /\ Login
    \/ pending = {} /\ ForgotPassword
    \/ pending = {} /\ ResetPassword
    \/ pending = {} /\ GetAdminUsers

SeqSpec == Init /\ [][SeqNext]_vars

\* ============================================================== claims

\* The data model's rule for a listing document p at time t.
VisibleDoc(p, t) ==
    p.isVisible /\ (p.visibleUntil = Null \/ p.visibleUntil[2] >= t)

\* a visible listing document whose visibleUntil has passed at time t
ExpiredDoc(p, t) ==
    p.isVisible /\ p.visibleUntil # Null /\ p.visibleUntil[2] < t

PubliclyVisibleAt(i, t) == i \in DOMAIN pools /\ VisibleDoc(pools[i], t)

ExpiredAt(i, t) == i \in DOMAIN pools /\ ExpiredDoc(pools[i], t)

\* The Authorization header is 'Bearer <token>' with a token signed with the
\* server's secret and not expired at t.
ValidBearer(h, t) ==
    /\ h.scheme = "Bearer"
    /\ h.gap = 1
    /\ h.cred.kind = "jwt"
    /\ h.cred.key = JWT_SECRET
    /\ t < h.cred.exp

\* the routes mounted behind authRequired, and the owner-scoped ones
BearerOps == {"POST /pools", "PUT /pools/:id", "DELETE /pools/:id"}
OwnerScoped == {"PUT /pools/:id", "DELETE /pools/:id"}

\* the ids given to listings so far that no stored listing has any more
Deleted == {i \in (NumUsers + 1)..(NumUsers + allocated) : i \notin DOMAIN pools}

\* The header carries, as Bearer credential or bare, a token signed with the
\* server's secret, not expired at t, whose subject is `owner`.
CarriesTokenOf(h, owner, t) ==
    /\ h.scheme \in {"Bearer", ""}
    /\ h.cred.kind = "jwt"
    /\ h.cred.key = JWT_SECRET
    /\ t < h.cred.exp
    /\ h.cred.sub = owner

\* the ids of the listings a GET answer returns
Listed(r) == {r.body[k].pool.id : k \in DOMAIN r.body}

\* the listing object o shows the stored listing i, field by field
ShowsStored(o, i) ==
    /\ i \in DOMAIN pools
    /\ o.id = i
    /\ \A f \in DOMAIN pools[i] \ {"_id"} : o[f] = pools[i][f]

\* the answer returns the stored listings `ids`, each once, and nothing else
ReturnsExactly(r, ids) ==
    /\ Listed(r) = ids
    /\ Len(r.body) = Cardinality(ids)
    /\ \A k \in DOMAIN r.body : ShowsStored(r.body[k].pool, r.body[k].pool.id)

\* C1: GET /pools without a userId, or with a userId that is no identifier,
\* answers 200 (never 400) and returns exactly the stored listings with
\* isVisible = true and visibleUntil null or not before the time of the
\* request, whatever happened before; a listing stored with isVisible = true
\* and a visibleUntil in the past is not among them.
C1_PublicListing ==
    (resp.op = "GET /pools" /\ resp.req.userId \in {Undefined, Junk}) =>
        /\ resp.status = 200
        /\ ReturnsExactly(resp, {i \in DOMAIN pools : PubliclyVisibleAt(i, now)})
        /\ \A i \in DOMAIN pools : ExpiredAt(i, now) => i \notin Listed(resp)

\* a public listing that returns a listing and leaves out a stored one that
\* is isVisible = true with its visibleUntil in the past
C1_Witness ==
    /\ resp.op = "GET /pools"
    /\ resp.req.userId = Junk
    /\ resp.body # <<>>
    /\ \E i \in DOMAIN pools : ExpiredAt(i, now) /\ i \notin Listed(resp)

\* C3: GET /pool for an existing listing answers 200 with the listing if and
\* only if the listing is publicly visible at the time of the request or the
\* request carries a valid, unexpired token of the listing's owner; otherwise
\* it answers 404 'Pool not found'.
C3_SingleListing ==
    (/\ resp.op = "GET /pool"
     /\ resp.req.id[1] \in {"hex", "hexpad"}
     /\ resp.req.id[2] \in DOMAIN pools) =>
        LET i == resp.req.id[2]
        IN  IF \/ PubliclyVisibleAt(i, now)
               \/ CarriesTokenOf(resp.req.auth, pools[i].userId, now)
            THEN /\ resp.status = 200
                 /\ Len(resp.body) = 1
                 /\ ShowsStored(resp.body[1].pool, i)
            ELSE /\ resp.status = 404
                 /\ resp.message = "Pool not found"
                 /\ resp.body = <<>>

\* the owner previews a listing that is not public, with a valid token
C3_Witness ==
    /\ resp.op = "GET /pool"
    /\ resp.status = 200
    /\ ~PubliclyVisibleAt(resp.req.id[2], now)
    /\ CarriesTokenOf(resp.req.auth, pools[resp.req.id[2]].userId, now)

\* C4: GET /pools?userId=A with a well-formed identifier A returns all stored
\* listings owned by A, invisible and expired ones included, and no listing
\* of anybody else.
C4_OwnerListing ==
    (resp.op = "GET /pools" /\ resp.req.userId[1] \in {"hex", "hexpad"}) =>
        /\ resp.status = 200
        /\ ReturnsExactly(resp, {i \in DOMAIN pools :
                                    pools[i].userId = resp.req.userId[2]})

\* an owner listing that returns a listing the public does not see while
\* somebody else's public listing is in the store and is left out
C4_Witness ==
    /\ resp.op = "GET /pools"
    /\ resp.req.userId[1] \in {"hex", "hexpad"}
    /\ \E i \in Listed(resp) : ~PubliclyVisibleAt(i, now)
    /\ \E j \in DOMAIN pools :
          /\ pools[j].userId # resp.req.userId[2]
          /\ PubliclyVisibleAt(j, now)
          /\ j \notin Listed(resp)

\* The answer r is to an owner-scoped request that carries a valid token and
\* names, with a well-formed id, a listing somebody else owns.
ForeignTarget(r) ==
    /\ r.op \in OwnerScoped
    /\ ValidBearer(r.req.auth, now)
    /\ r.req.id[1] = "hex"
    /\ r.req.id[2] \in DOMAIN pools
    /\ pools[r.req.id[2]].userId # r.req.auth.cred.sub

\* the same, the id being one no stored listing has
AbsentTarget(r) ==
    /\ r.op \in OwnerScoped
    /\ ValidBearer(r.req.auth, now)
    /\ r.req.id[1] = "hex"
    /\ r.req.id[2] \notin DOMAIN pools

\* the request is an update whose body the handler's validation refuses
RefusedBody(r) ==
    r.op = "PUT /pools/:id" /\ ~updateIsValid(parseUpdate(r.req.pool))

NotFound(r) == r.status = 404 /\ r.message = "Pool not found" /\ r.body = <<>>

\* C2, as stated: every PUT /pools/:id and DELETE /pools/:id authenticated as
\* B and targeting a listing of A answers 404 'Pool not found' and leaves the
\* store as it was.
C2_AsStated ==
    [][ForeignTarget(resp') => (NotFound(resp') /\ pools' = pools)]_vars

\* C2: a PUT /pools/:id or DELETE /pools/:id authenticated as B and targeting
\* a listing of A leaves the listing stored with every field unchanged; it
\* answers 404 'Pool not found', except a PUT whose body fails validation,
\* which answers 400 'Invalid pool data' before the store is reached; the
\* answer is the one given for an id that no listing has.
C2_ForeignListing ==
    [][/\ ForeignTarget(resp') => pools' = pools
       /\ (ForeignTarget(resp') \/ AbsentTarget(resp')) =>
             IF RefusedBody(resp')
             THEN /\ resp'.status = 400
                  /\ resp'.message = "Invalid pool data"
                  /\ resp'.body = <<>>
             ELSE NotFound(resp')]_vars

\* B's valid update of A's listing was answered 404, the listing is stored
C2_Witness ==
    /\ resp.op = "PUT /pools/:id"
    /\ ForeignTarget(resp)
    /\ ~RefusedBody(resp)
    /\ NotFound(resp)

\* isVisible and visibleUntil of a stored listing change only in a
\* PUT /pools/:id/visibility that passed the admin secret gate, and
\* PUT /pools/:id leaves isVisible, visibleUntil and the owner reference
VisibilityByToggleOnly ==
    \A i \in DOMAIN pools \cap DOMAIN pools' :
        /\ (\/ pools'[i].isVisible # pools[i].isVisible
            \/ pools'[i].visibleUntil # pools[i].visibleUntil) =>
                /\ resp'.op = "PUT /pools/:id/visibility"
                /\ resp'.status = 200
                /\ adminSecret # ""
                /\ resp'.req.admin = adminSecret
                /\ resp'.req.id = Hex(i)
        /\ resp'.op = "PUT /pools/:id" =>
                /\ pools'[i].isVisible = pools[i].isVisible
                /\ pools'[i].visibleUntil = pools[i].visibleUntil
                /\ pools'[i].userId = pools[i].userId

\* after a step of a bearer-authenticated route no listing is publicly
\* visible that was not before
NotPublishedByBearer ==
    resp'.op \in BearerOps =>
        \A i \in DOMAIN pools' :
            VisibleDoc(pools'[i], now') => PubliclyVisibleAt(i, now)

\* a toggle leaves the fields outside `changing` of every stored listing
ToggleKeepsAllBut(changing) ==
    resp'.op = "PUT /pools/:id/visibility" =>
        /\ DOMAIN pools' = DOMAIN pools
        /\ \A i \in DOMAIN pools : \A f \in DOMAIN pools[i] \ changing :
              pools'[i][f] = pools[i][f]

\* C5, as stated: isVisible and visibleUntil change only through the
\* admin-gated toggle, the owner's PUT leaves them and the owner reference,
\* no bearer-authenticated operation publishes a listing, and the toggle
\* leaves every field other than isVisible and visibleUntil unchanged.
C5_AsStated ==
    [][/\ VisibilityByToggleOnly
       /\ NotPublishedByBearer
       /\ ToggleKeepsAllBut({"isVisible", "visibleUntil"})]_vars

\* C5: isVisible and visibleUntil change only through the admin-gated
\* toggle, the owner's PUT leaves them and the owner reference, no
\* bearer-authenticated operation publishes a listing, and the toggle leaves
\* every field other than isVisible, visibleUntil and the updatedAt
\* timestamp unchanged.
C5_VisibilityControl ==
    [][/\ VisibilityByToggleOnly
       /\ NotPublishedByBearer
       /\ ToggleKeepsAllBut({"isVisible", "visibleUntil", "updatedAt"})]_vars

\* the owner's update of a listing that is visible with an expiry date was
\* applied
C5_Witness ==
    /\ resp.op = "PUT /pools/:id"
    /\ resp.status = 200
    /\ pools[resp.req.id[2]].isVisible
    /\ pools[resp.req.id[2]].visibleUntil # Null
    /\ pools[resp.req.id[2]].title = trim(resp.req.pool.title)

\* the answer r went to a caller who showed no token of the owner: any
\* GET /pools, and a GET /pool whose header carries no valid token
Anonymous(r) ==
    \/ r.op = "GET /pools"
    \/ /\ r.op = "GET /pool"
       /\ \A u \in UserIds : ~CarriesTokenOf(r.req.auth, u, now)

\* the same without the GET /pools that name an owner
AnonymousPublic(r) ==
    \/ r.op = "GET /pools" /\ r.req.userId[1] \notin {"hex", "hexpad"}
    \/ /\ r.op = "GET /pool"
       /\ \A u \in UserIds : ~CarriesTokenOf(r.req.auth, u, now)

\* a listing is created with isVisible = false and visibleUntil = null, and
\* isVisible becomes true only in a successful visibility PUT with
\* isVisible = true on that listing
PublishedByToggleOnly ==
    \A i \in DOMAIN pools' :
        /\ i \notin DOMAIN pools =>
              /\ resp'.op = "POST /pools"
              /\ pools'[i].isVisible = FALSE
              /\ pools'[i].visibleUntil = Null
        /\ (pools'[i].isVisible /\ (i \notin DOMAIN pools \/ ~pools[i].isVisible)) =>
              /\ resp'.op = "PUT /pools/:id/visibility"
              /\ resp'.status = 200
              /\ resp'.req.isVisible = TRUE
              /\ resp'.req.id = Hex(i)

\* C6, as stated: a created listing has isVisible = false and visibleUntil =
\* null, and no GET /pools and no GET /pool of an anonymous caller returns a
\* listing before a visibility PUT with isVisible = true succeeded on it.
C6_AsStated ==
    [][/\ PublishedByToggleOnly
       /\ Anonymous(resp') => \A i \in Listed(resp') : pools[i].isVisible]_vars

\* C6: a created listing has isVisible = false and visibleUntil = null, and
\* it is returned neither by a GET /pools that names no owner (no userId, or
\* one that is no identifier) nor by a GET /pool without a valid token before
\* a visibility PUT with isVisible = true succeeded on it.  (GET /pools with
\* the owner's id as userId returns it to any caller.)
C6_UnpublishedHidden ==
    [][/\ PublishedByToggleOnly
       /\ AnonymousPublic(resp') => \A i \in Listed(resp') : pools[i].isVisible]_vars

\* a public listing returned something while a listing that was never made
\* visible is stored and was left out
C6_Witness ==
    /\ resp.op = "GET /pools"
    /\ resp.req.userId = Undefined
    /\ resp.body # <<>>
    /\ \E i \in DOMAIN pools :
          /\ ~pools[i].isVisible
          /\ pools[i].visibleUntil = Null
          /\ i \notin Listed(resp)

\* the answer r is to a DELETE by which the owner of listing i removed it
DeletedByOwner(r, i) ==
    /\ r.op = "DELETE /pools/:id"
    /\ r.status = 204
    /\ r.req.id = Hex(i)
    /\ ValidBearer(r.req.auth, now)
    /\ r.req.auth.cred.sub = pools[i].userId

\* the answer r is to a GET /pool that names the stored listing i
PreviewOf(r, i) ==
    /\ r.op = "GET /pool"
    /\ r.req.id[1] \in {"hex", "hexpad"}
    /\ r.req.id[2] = i

\* C7: time passing changes no stored listing, and a listing leaves the store
\* only in its owner's DELETE; a listing that is visible with its
\* visibleUntil passed is left out of the public GET /pools and answered 404
\* to a GET /pool without its owner's valid token, stays so until a
\* visibility toggle is applied to it, and is returned by
\* GET /pools?userId=<owner id> and by GET /pool with the owner's valid token.
C7_ExpiryKeepsListing ==
    [][/\ now' # now => pools' = pools
       /\ \A i \in DOMAIN pools \ DOMAIN pools' : DeletedByOwner(resp', i)
       /\ \A i \in DOMAIN pools : ExpiredAt(i, now) =>
            /\ (resp'.op = "GET /pools" /\ resp'.req.userId \in {Undefined, Junk}) =>
                    i \notin Listed(resp')
            /\ (PreviewOf(resp', i)
                  /\ ~CarriesTokenOf(resp'.req.auth, pools[i].userId, now)) =>
                    NotFound(resp')
            /\ (i \in DOMAIN pools' /\ ~ExpiredDoc(pools'[i], now')) =>
                    /\ resp'.op = "PUT /pools/:id/visibility"
                    /\ resp'.status = 200
                    /\ resp'.req.id = Hex(i)
            /\ (resp'.op = "GET /pools"
                  /\ resp'.req.userId \in {Hex(pools[i].userId),
                                           HexPadded(pools[i].userId)}) =>
                    /\ i \in Listed(resp')
                    /\ \A k \in DOMAIN resp'.body :
                          resp'.body[k].pool.id = i =>
                              ShowsStored(resp'.body[k].pool, i)
            /\ (PreviewOf(resp', i)
                  /\ CarriesTokenOf(resp'.req.auth, pools[i].userId, now)) =>
                    /\ resp'.status = 200
                    /\ ShowsStored(resp'.body[1].pool, i)]_vars

\* the owner's listing request returned a listing whose visibleUntil has
\* passed
C7_Witness ==
    /\ resp.op = "GET /pools"
    /\ resp.req.userId[1] = "hex"
    /\ \E i \in Listed(resp) :
          ExpiredAt(i, now) /\ pools[i].userId = resp.req.userId[2]

\* C8: a listing enters the store only in a POST /pools that carried a valid
\* bearer token, with that token's subject as its owner reference, whatever
\* the body says; no later step changes the owner reference of a stored
\* listing.
C8_OwnerReference ==
    [][/\ \A i \in DOMAIN pools' \ DOMAIN pools :
            /\ resp'.op = "POST /pools"
            /\ resp'.status = 201
            /\ ValidBearer(resp'.req.auth, now)
            /\ pools'[i].userId = resp'.req.auth.cred.sub
       /\ \A i \in DOMAIN pools \cap DOMAIN pools' :
            pools'[i].userId = pools[i].userId]_vars

\* a listing was created from a body that names another user as userId, and
\* is owned by the token's subject
C8_Witness ==
    /\ resp.op = "POST /pools"
    /\ resp.status = 201
    /\ resp.req.pool.userId[1] = "hex"
    /\ resp.req.pool.userId[2] # resp.req.auth.cred.sub
    /\ pools[resp.body[1].id].userId = resp.req.auth.cred.sub

\* an owner-scoped step changes the store only when the caller owns the
\* listing it names, and then touches no other listing and adds none
OwnerScopedStep ==
    (resp'.op \in OwnerScoped /\ pools' # pools) =>
        /\ ValidBearer(resp'.req.auth, now)
        /\ resp'.req.id[1] = "hex"
        /\ resp'.req.id[2] \in DOMAIN pools
        /\ pools[resp'.req.id[2]].userId = resp'.req.auth.cred.sub
        /\ DOMAIN pools' \subseteq DOMAIN pools
        /\ \A j \in DOMAIN pools \ {resp'.req.id[2]} :
              j \in DOMAIN pools' /\ pools'[j] = pools[j]

\* the answer r is to an update with a valid token, or a toggle with the
\* admin secret, that names the id i
AuthorisedWriteOn(r, i) ==
    \/ /\ r.op = "PUT /pools/:id"
       /\ ValidBearer(r.req.auth, now)
       /\ r.req.id = Hex(i)
    \/ /\ r.op = "PUT /pools/:id/visibility"
       /\ adminSecret # ""
       /\ r.req.admin = adminSecret
       /\ r.req.id = Hex(i)

\* the request is a toggle whose visibleUntil is refused
RefusedDate(r) ==
    /\ r.op = "PUT /pools/:id/visibility"
    /\ r.req.visibleUntil # Undefined
    /\ r.req.visibleUntil[1] # "iso"

\* C9, as stated: a non-owner's PUT or DELETE never changes the store, an
\* owner-scoped step changes it only on a match of id and caller, and every
\* update or toggle after a successful delete of the listing answers 404 and
\* does not bring the listing back.
C9_AsStated ==
    [][/\ OwnerScopedStep
       /\ ForeignTarget(resp') => pools' = pools
       /\ \A i \in Deleted :
            /\ i \notin DOMAIN pools'
            /\ AuthorisedWriteOn(resp', i) => resp'.status = 404]_vars

\* C9: a non-owner's PUT or DELETE never changes the store, an owner-scoped
\* step changes it only on a match of id and caller, and an update or toggle
\* after a successful delete of the listing never brings the listing back; it
\* answers 404 'Pool not found', except that a body or a visibleUntil that
\* fails validation is answered 400 before the store is reached.
C9_AtomicOwnerMatch ==
    [][/\ OwnerScopedStep
       /\ ForeignTarget(resp') => pools' = pools
       /\ \A i \in Deleted :
            /\ i \notin DOMAIN pools'
            /\ AuthorisedWriteOn(resp', i) =>
                  /\ pools' = pools
                  /\ IF RefusedBody(resp') \/ RefusedDate(resp')
                     THEN resp'.status = 400
                     ELSE NotFound(resp')]_vars

\* the former owner's valid update of a deleted listing was answered 404
C9_Witness ==
    /\ resp.op = "PUT /pools/:id"
    /\ ValidBearer(resp.req.auth, now)
    /\ resp.req.id[1] = "hex"
    /\ resp.req.id[2] \in Deleted
    /\ ~RefusedBody(resp)
    /\ NotFound(resp)

\* C10: a request to a route behind authRequired passes the gate exactly when
\* its Authorization header is 'Bearer <token>' with a token signed with the
\* server's secret and not expired, and the handler then sees the token's
\* subject as caller; a header that is missing or yields an empty token is
\* answered 401 without a call of the token verification; a request the gate
\* stops is answered 401, its path and body are not read and the store is
\* as before.
C10_AuthGate ==
    [][resp'.op \in BearerOps =>
        LET h == resp'.req.auth
            g == resp'.gate
        IN  /\ g.pass <=> ValidBearer(h, now)
            /\ g.pass => /\ g.verified
                         /\ g.userId = h.cred.sub
                         /\ resp'.status # 401
            /\ (h.scheme # "Bearer" \/ h.cred.kind = "empty") =>
                    /\ ~g.pass
                    /\ ~g.verified
                    /\ g.code = "AUTH_REQUIRED"
            /\ ~g.pass => /\ resp'.status = 401
                          /\ resp'.body = <<>>
                          /\ pools' = pools
                          /\ allocated' = allocated
                          /\ users' = users
            /\ pools' # pools =>
                    /\ g.pass
                    /\ \A i \in DOMAIN pools' :
                          (i \notin DOMAIN pools \/ pools'[i] # pools[i]) =>
                              pools'[i].userId = h.cred.sub]_vars

\* a token that has expired was stopped at the gate of an owner-scoped route
\* while a listing of its subject is stored
C10_Witness ==
    /\ resp.op \in OwnerScoped
    /\ resp.status = 401
    /\ resp.gate.code = "TOKEN_EXPIRED"
    /\ \E i \in DOMAIN pools : pools[i].userId = resp.req.auth.cred.sub

\* C11: a request the bearer gate stops is answered 401, with code
\* AUTH_REQUIRED when the header yields no token, TOKEN_EXPIRED when the
\* token is signed with the server's secret and the time is at or past its
\* issue time + TTL, and TOKEN_INVALID when the token is malformed or
\* signed with another secret, expired or not.
C11_RejectionCodes ==
    (resp.op \in BearerOps /\ ~resp.gate.pass) =>
        LET h == resp.req.auth
        IN  /\ resp.status = 401
            /\ IF h.scheme # "Bearer" \/ h.cred.kind = "empty"
               THEN resp.gate.code = "AUTH_REQUIRED"
               ELSE IF h.gap = 1 /\ h.cred.kind = "jwt" /\ h.cred.key = JWT_SECRET
               THEN /\ now >= h.cred.iat + JWT_TTL
                    /\ resp.gate.code = "TOKEN_EXPIRED"
               ELSE resp.gate.code = "TOKEN_INVALID"

\* a token signed with another secret, past its expiry, was answered
\* TOKEN_INVALID
C11_Witness ==
    /\ resp.op = "POST /pools"
    /\ resp.status = 401
    /\ resp.req.auth.cred.kind = "jwt"
    /\ resp.req.auth.cred.key # JWT_SECRET
    /\ now >= resp.req.auth.cred.iat + JWT_TTL
    /\ resp.gate.code = "TOKEN_INVALID"

\* ------------------------------------------------ account-route claims

\* the account's password is not the one the database started with
PasswordChanged(u) == users[u].passwordHash # InitUsers[u].passwordHash

\* C12: a token that register or login has returned passes the bearer gate,
\* with its own subject, at every time before its expiry, whatever the
\* account routes have done to the user since, a password change included;
\* and PUT /user treats a caller who presents one as that subject.
C12_TokenOutlivesPassword ==
    /\ \A c \in AccountTokens(now) :
          now < c.exp =>
              LET g == authRequired(Bearer(c), now)
              IN  g.pass /\ g.userId = c.sub
    /\ (/\ resp.op = "PUT /user"
        /\ resp.req.auth.scheme = "Bearer"
        /\ resp.req.auth.cred \in AccountTokens(now)
        /\ now < resp.req.auth.cred.exp)
          => resp.gate.pass /\ resp.gate.userId = resp.req.auth.cred.sub

\* PUT /user lets in the holder of a token issued before the holder's
\* password was changed
C12_Witness ==
    /\ resp.op = "PUT /user"
    /\ resp.gate.pass
    /\ resp.gate.userId = 1
    /\ PasswordChanged(1)
    /\ resp.req.auth.cred.iat < users[1].updatedAt[2]
    /\ resp.status = 401
    /\ resp.message = "Current password incorrect"

AdminOps == {"PUT /pools/:id/visibility", "GET /admin/users"}

\* the answer of a route behind adminSecretRequired, as the gate rules it
AdminGateRules ==
    resp.op \in AdminOps =>
        /\ resp.gate.pass <=> (adminSecret # "" /\ resp.req.admin = adminSecret)
        /\ adminSecret = "" => resp.status = 500
        /\ (adminSecret # "" /\ resp.req.admin # adminSecret) => resp.status = 401
        /\ resp.gate.pass => resp.status \in {200, 400, 404}
        /\ ~resp.gate.pass => resp.body = <<>>

\* a request the gate turns away changes no stored document
AdminRefusalWritesNothing ==
    (resp'.op \in AdminOps /\ resp' # resp /\ ~resp'.gate.pass) =>
        pools' = pools /\ users' = users

\* C13: the handler of PUT /pools/:id/visibility and of GET /admin/users
\* runs exactly when the configured secret is not empty and x-admin-secret
\* equals it; with no secret configured every request is answered 500, with
\* a header that differs 401, and in both cases nothing stored changes and
\* the answer carries no data.
C13_AdminGate == []AdminGateRules /\ [][AdminRefusalWritesNothing]_vars

\* the user list is refused to a header of the secret's length that differs
\* from it, while listings exist
C13_Witness ==
    /\ resp.op = "GET /admin/users"
    /\ adminSecret # ""
    /\ resp.req.admin = "adm1N"
    /\ resp.status = 401
    /\ resp.body = <<>>
    /\ pools # <<>>

\* an address with its capitals folded, for comparison
Folded(s) == [i \in DOMAIN s |-> lowerChar(s[i])]

\* no two stored users hold the same address, capitals aside, and every
\* stored address is trimmed and lower-cased
UniqueEmails ==
    /\ \A i, j \in DOMAIN users :
          i # j => Folded(users[i].email) # Folded(users[j].email)
    /\ \A i \in DOMAIN users :
          users[i].email = Folded(users[i].email) /\ users[i].email = trim(users[i].email)

\* another user than `id` holds the address
HeldByAnother(id, email) ==
    \E j \in DOMAIN users : j # id /\ Folded(users[j].email) = Folded(trim(email))

RegisterAnswer == resp.op = "POST /auth/register"
PutUserAnswer == resp.op = "PUT /user" /\ resp.gate.pass

\* the user a successful registration has created
Created == IF RegisterAnswer /\ resp.status = 201 THEN resp.body[1].user.id ELSE 0

\* an answer of 409 comes with no write to the users
ConflictWritesNothing ==
    (resp' # resp /\ resp'.status = 409) => users' = users

\* C14 as stated: unique addresses, 409 for every registration and every
\* change of address that names an address another user holds, 201 for
\* every registration with a well-formed address nobody holds.
C14_AsStated ==
    /\ UniqueEmails
    /\ (RegisterAnswer /\ HeldByAnother(Created, resp.req.email)) => resp.status = 409
    /\ (PutUserAnswer /\ HeldByAnother(resp.gate.userId, resp.req.body.email))
          => resp.status = 409
    /\ (RegisterAnswer /\ isEmail(Folded(trim(resp.req.email)))
          /\ ~HeldByAnother(Created, resp.req.email)) => resp.status = 201

\* the requests whose other fields pass validation
ValidRegistration == RegisterAnswer /\ registerIsValid(parseRegister(resp.req))
ValidUserUpdate == PutUserAnswer /\ userIsValid(parseUser(resp.req.body))

UniqueEmailRules ==
    /\ UniqueEmails
    /\ (ValidRegistration /\ HeldByAnother(Created, resp.req.email)) => resp.status = 409
    /\ (ValidUserUpdate /\ HeldByAnother(resp.gate.userId, resp.req.body.email))
          => resp.status = 409
    /\ (ValidRegistration /\ ~HeldByAnother(Created, resp.req.email))
          => resp.status = 201 /\ users[Created].email = Folded(trim(resp.req.email))

\* C14: with the requests handled one after the other, no two stored users
\* hold the same address, capitals and outer blanks aside; a registration,
\* or a change of address by an authenticated caller, whose other fields
\* are valid and whose address another user holds is answered 409, and a
\* 409 writes nothing; a valid registration whose address nobody else holds
\* is answered 201 and stores the folded address.
C14_UniqueEmail == []UniqueEmailRules /\ [][ConflictWritesNothing]_vars

\* a second registration with an address, differently typed, that a first
\* registration has stored is refused
C14_Witness ==
    /\ RegisterAnswer
    /\ resp.req = RegNew
    /\ resp.status = 409
    /\ Len(users) = 3
    /\ users[3].email = EmailC

\* the waiting request claims its address: a registration, or a change of
\* the caller's address
ClaimsEmail(p) == p.kind = "register" \/ "email" \in p.modified

\* two waiting requests have passed the find-by-email check for the same
\* address
Racing ==
    \E p, q \in pending :
        p # q /\ ClaimsEmail(p) /\ ClaimsEmail(q) /\ p.doc.email = q.doc.email

\* the write of a waiting request that claims an address: refused with 409
\* and nothing written when another user holds the address by then,
\* successful otherwise, and then one user holds the address
RaceOutcome ==
    \A p \in pending :
        (pending' = pending \ {p} /\ ClaimsEmail(p)) =>
            IF \E j \in DOMAIN users : j # p.userId /\ users[j].email = p.doc.email
            THEN resp'.status = 409 /\ users' = users
            ELSE /\ resp'.status \in {200, 201}
                 /\ Cardinality({j \in DOMAIN users' :
                                    users'[j].email = p.doc.email}) = 1

\* C15: of two requests that both passed the find-by-email check for one
\* address before either wrote (two registrations, or a registration and a
\* change of address), the first to write succeeds and the other is
\* answered 409; no answer is a 5xx, and at all times at most one user
\* holds an address.
C15_EmailRace ==
    /\ [](UniqueEmails /\ ((RegisterAnswer \/ resp.op = "PUT /user") => resp.status < 500))
    /\ [][RaceOutcome]_vars

\* a registration that passed the check is answered 409 by the index: the
\* caller of a PUT /user that raced with it holds the address
C15_Witness ==
    /\ RegisterAnswer
    /\ resp.status = 409
    /\ resp.message = "Email already used"
    /\ users[1].email = EmailC
    /\ Len(users) = 2

LoginAnswer == resp.op = "POST /auth/login"

\* the stored users whose address and password the login request names
Authenticates(req) ==
    {i \in DOMAIN users :
        /\ users[i].email = Folded(trim(req.email))
        /\ users[i].passwordHash = <<"bcrypt", req.password>>}

\* C16: POST /auth/login answers 200, with the user and a token whose
\* subject is that user, exactly when a stored user has the address and the
\* password of the request; every other request gets the one answer 401
\* 'Invalid credentials' with no body, whether the address is unknown, the
\* password wrong, or either of them malformed.
C16_LoginAnswers ==
    LoginAnswer =>
        IF Authenticates(resp.req) # {}
        THEN /\ resp.status = 200
             /\ resp.body[1].user.id \in Authenticates(resp.req)
             /\ resp.body[1].accessToken = signAccess(resp.body[1].user.id, now)
        ELSE /\ resp.status = 401
             /\ resp.message = "Invalid credentials"
             /\ resp.body = <<>>

\* a registered address with a well-formed password that is not the
\* user's is answered like an unknown address
C16_Witness ==
    /\ LoginAnswer
    /\ findByEmail(Folded(trim(resp.req.email))) # {}
    /\ passOk(resp.req.password)
    /\ Authenticates(resp.req) = {}
    /\ resp.status = 401
    /\ PasswordChanged(1)

ForgotAnswer == resp.op = "POST /auth/forgot-password"

\* C17: POST /auth/forgot-password answers a well-formed address with 200
\* and the body {message: 'OK'}, the same whether or not a user holds the
\* address, and answers 400 only a malformed one.
C17_ForgotAnswers ==
    ForgotAnswer =>
        IF isEmail(Folded(trim(resp.req.email)))
        THEN resp.status = 200 /\ resp.message = "OK" /\ resp.body = <<>>
        ELSE resp.status = 400

\* the answer for an address nobody holds, after an e-mail has gone to a
\* user for the same answer
C17_Witness ==
    /\ ForgotAnswer
    /\ resp.status = 200
    /\ findByEmail(Folded(trim(resp.req.email))) = {}
    /\ mail # <<>>

ResetAnswer == resp.op = "POST /auth/reset-password"

\* the e-mails that carried the token
MailsOf(token) == {i \in DOMAIN mail : mail[i].token = token}

\* the token is the one reset token its user can still use at time t: it
\* was mailed, less than RESET_TTL ago, and no later e-mail went to the
\* same user
Live(token, t) ==
    \E i \in MailsOf(token) :
        /\ t < mail[i].expires
        /\ \A j \in DOMAIN mail : j > i => mail[j].userId # mail[i].userId

\* a reset request whose token is not live is answered 400
DeadTokenRefused ==
    (ResetAnswer /\ ~Live(trim(resp.req.token), now)) => resp.status = 400

\* and it leaves every stored user, the password hash included, as it was
DeadTokenWritesNothing ==
    (resp' # resp /\ resp'.op = "POST /auth/reset-password"
        /\ ~Live(trim(resp'.req.token), now)) => users' = users

\* C18: POST /auth/reset-password answers 400 and changes no password when
\* its token was never issued, was issued RESET_TTL or more ago, or has
\* been superseded by a later forgot-password for the same user.
C18_DeadTokens == []DeadTokenRefused /\ [][DeadTokenWritesNothing]_vars

\* a well-formed request with a mailed token that has run out is refused
C18_Witness ==
    /\ ResetAnswer
    /\ passOk(resp.req.password)
    /\ \E i \in MailsOf(trim(resp.req.token)) : now >= mail[i].expires
    /\ resp.status = 400
    /\ resp.message = "Invalid or expired token"

\* the user a mailed token was issued to
UserOf(token) == mail[CHOOSE i \in MailsOf(token) : TRUE].userId

\* C19 as stated: a reset request that carries a user's live token and, as
\* ResetPasswordRequest documents it, a newPassword of PASSWORD_MIN to
\* PASSWORD_MAX characters is answered 200, and the user's stored password
\* is then the new one.
C19_AsStated ==
    (/\ ResetAnswer
     /\ Live(trim(resp.req.token), now)
     /\ passOk(resp.req.newPassword))
        => /\ resp.status = 200
           /\ users[UserOf(trim(resp.req.token))].passwordHash
                  = <<"bcrypt", resp.req.newPassword>>

UserOps ==
    {"POST /auth/register", "POST /auth/login", "PUT /user", "GET /admin/users"}

\* the user objects an answer carries
UsersShown ==
    IF resp.body = <<>> THEN {}
    ELSE IF resp.op = "GET /admin/users"
    THEN {resp.body[1].users[i] : i \in DOMAIN resp.body[1].users}
    ELSE {resp.body[1].user}

\* the secrets of the accounts: the stored hashes and the mailed tokens
StoredHashes == {users[i].passwordHash : i \in DOMAIN users}
MailedTokens == {mail[i].token : i \in DOMAIN mail}

\* C20: no answer of POST /auth/register, POST /auth/login, PUT /user or
\* GET /admin/users carries a password hash or a reset token, under any
\* key, also for a user with a live reset token; besides the user objects
\* an answer carries at most an access token.
C20_NoSecretsShown ==
    resp.op \in UserOps =>
        /\ resp.body # <<>> => DOMAIN resp.body[1] \subseteq {"user", "users", "accessToken"}
        /\ \A o \in UsersShown :
              /\ DOMAIN o \cap {"passwordHash", "resetPasswordToken",
                                 "resetPasswordExpires"} = {}
              /\ \A k \in DOMAIN o \ {"id", "publishedPoolsCount"} :
                    o[k] \notin StoredHashes \cup MailedTokens

\* the admin list shows a user whose reset token is live and a user whose
\* password has been changed
C20_Witness ==
    /\ resp.op = "GET /admin/users"
    /\ resp.status = 200
    /\ PasswordChanged(1)
    /\ \E i \in DOMAIN mail : Live(mail[i].token, now) /\ mail[i].userId = 2
    /\ Cardinality(UsersShown) >= 2

\* ------------------------------------------------- listing payload claims

PoolWriteOps == {"POST /pools", "PUT /pools/:id"}

\* the answer of a handler that has read req.body.pool
PayloadAnswer ==
    resp.op \in PoolWriteOps /\ resp.gate.pass /\ resp.message # "Invalid id"

\* the number of image entries a payload carries
ImageCount(input) == IF input.images[1] = "arr" THEN Len(input.images[2]) ELSE 0

\* the payload breaks a bound of the data model: title of 3..40 characters,
\* a city, a whole capacity in 1..100, 1..7 images, a price, when given, in
\* 1..10000, a description within the schema's 800 characters
ViolatesBounds(input) ==
    \/ Len(trim(input.title)) < 3
    \/ Len(trim(input.title)) > 40
    \/ trim(input.city) = <<>>
    \/ input.capacity[1] # "num"
    \/ input.capacity[2] % 2 # 0
    \/ input.capacity[2] < 2
    \/ input.capacity[2] > 200
    \/ ImageCount(input) < 1
    \/ ImageCount(input) > 7
    \/ (input.pricePerDay # Undefined /\
            (input.pricePerDay[1] # "num" \/ input.pricePerDay[2] < 2
                \/ input.pricePerDay[2] > 20000))
    \/ (input.description[1] = "str" /\ Len(input.description[2]) > 800)

\* C21 as stated: a POST /pools or PUT /pools/:id whose payload breaks a
\* bound of the data model is always answered 400 'Invalid pool data'.
C21_AsStated ==
    (PayloadAnswer /\ ViolatesBounds(resp.req.pool)) =>
        resp.status = 400 /\ resp.message = "Invalid pool data"

\* a stored listing within the bounds of the data model
WithinBounds(p) ==
    /\ Len(p.title) >= 3
    /\ Len(p.title) <= 40
    /\ p.city # <<>>
    /\ p.capacity[1] = "num"
    /\ p.capacity[2] % 2 = 0
    /\ p.capacity[2] >= 2
    /\ p.capacity[2] <= 200
    /\ Len(p.images) >= 1
    /\ Len(p.images) <= 7
    /\ (p.pricePerDay = Undefined \/
           (p.pricePerDay[1] = "num" /\ p.pricePerDay[2] >= 2
               /\ p.pricePerDay[2] <= 20000))

\* C22 as stated: every stored listing has a title of 3..40 characters, a
\* city, a whole capacity in 1..100, 1..7 images and a price that is
\* absent or in 1..10000.
C22_AsStated == \A i \in DOMAIN pools : WithinBounds(pools[i])

\* ------------------------------------------------- PUT /user claims

\* a passwordChange that fails the handler's own validation
MalformedPasswordChange(body) ==
    /\ body.passwordChange # Undefined
    /\ \/ body.passwordChange[2].currentPassword = ""
       \/ body.passwordChange[2].newPassword = ""
       \/ Len(body.passwordChange[2].newPassword) < PASSWORD_MIN
       \/ Len(body.passwordChange[2].newPassword) > PASSWORD_MAX

\* C23 as stated, on its own example: a PUT /user with a malformed
\* passwordChange is answered 400 whatever the store holds, never 404 or
\* 409.
C23_AsStated ==
    (PutUserAnswer /\ MalformedPasswordChange(resp.req.body)) => resp.status = 400

\* the step answers a PUT /user
PutUserAnswered == resp' # resp /\ resp'.op = "PUT /user"

\* an error answer of PUT /user comes with no write to the users
PutUserErrorWritesNothing ==
    (PutUserAnswered /\ resp'.status # 200) => users' = users

\* a 200 of PUT /user comes with all of the request in the caller's stored
\* document: the four profile fields, the avatar when the body carries one,
\* the new password hash when a change was asked and the old one otherwise;
\* the other users stay
PutUserAppliesAll ==
    (PutUserAnswered /\ resp'.status = 200) =>
        LET id == resp'.gate.userId
            body == resp'.req.body
        IN  /\ users'[id].firstName = trim(body.firstName)
            /\ users'[id].lastName = trim(body.lastName)
            /\ users'[id].email = Folded(trim(body.email))
            /\ users'[id].mobileNumber = trim(body.mobileNumber)
            /\ users'[id].avatarUrl =
                   IF body.avatarUrl = Undefined THEN users[id].avatarUrl
                   ELSE IF body.avatarUrl = Null THEN <<>>
                   ELSE trim(body.avatarUrl[2])
            /\ users'[id].passwordHash =
                   IF body.passwordChange = Undefined THEN users[id].passwordHash
                   ELSE <<"bcrypt", body.passwordChange[2].newPassword>>
            /\ \A j \in DOMAIN users : j # id => users'[j] = users[j]

\* C24: a PUT /user answered with an error (400, 401, 404, 409) leaves
\* every stored user as it was; one answered 200 has written all of its
\* profile fields and, when it asked for one, the new password hash.
C24_AllOrNothing ==
    [][PutUserErrorWritesNothing /\ PutUserAppliesAll]_vars

\* a 200 that changed the password together with the profile, and a later
\* request with the old password refused with the profile as it is
C24_Witness ==
    /\ resp.op = "PUT /user"
    /\ resp.status = 401
    /\ resp.message = "Current password incorrect"
    /\ resp.gate.userId = 1
    /\ users[1].passwordHash = <<"bcrypt", "newpass4">>
    /\ users[1].firstName = <<"E", "v", "a">>
    /\ users[1].avatarUrl = <<"n", ".", "p", "n", "g">>

\* ------------------------------------------------- reset token claims

\* the stored user holds the reset token and the expiry of the e-mail
StoresToken(id, m) ==
    /\ "resetPasswordToken" \in DOMAIN users[id]
    /\ users[id].resetPasswordToken = m.token
    /\ users[id].resetPasswordExpires = m.expires

\* C25 as stated: when POST /auth/forgot-password answers for an existing
\* user, the token of the e-mail it has prepared and its expiry are stored
\* with the user.
C25_AsStated ==
    (/\ ForgotAnswer
     /\ resp.status = 200
     /\ findByEmail(Folded(trim(resp.req.email))) # {})
        => /\ mail # <<>>
           /\ StoresToken(mail[Len(mail)].userId, mail[Len(mail)])

\* ------------------------------------------------- listing update claims

\* C26 as stated: after a successful PUT /pools/:id the stored listing has
\* the request's title, city, capacity and images, and each of pricePerDay,
\* description, busyDays and filters is the request's value when the
\* request carries one and absent when it does not.
C26_AsStated ==
    (resp.op = "PUT /pools/:id" /\ resp.status = 200) =>
        LET p == pools[resp.req.id[2]]
            input == resp.req.pool
        IN  /\ p.title = trim(input.title)
            /\ p.city = trim(input.city)
            /\ p.capacity = input.capacity
            /\ p.images = input.images[2]
            /\ p.pricePerDay = input.pricePerDay
            /\ p.description = IF input.description[1] = "str"
                               THEN Text(trim(input.description[2])) ELSE NoText
            /\ p.busyDays = input.busyDays
            /\ p.filters = input.filters

\* ------------------------------------------------- token subject claims

\* verifyAccess gives back the id signAccess was called with, for every
\* stored user and every time of issue, while the token has not expired
RoundTrip ==
    \A u \in DOMAIN users, i \in 0..now :
        now < i + JWT_TTL =>
            LET v == verifyAccess(TokenText(0, signAccess(u, i)), now)
            IN  v.ok /\ v.sub = u

\* the token in a login or registration answer is, until it expires, the
\* token of the user in that answer, who is the user that logged in or was
\* created
IssuedForCaller ==
    ((LoginAnswer /\ resp.status = 200) \/ (RegisterAnswer /\ resp.status = 201)) =>
        LET token == resp.body[1].accessToken
            id == resp.body[1].user.id
        IN  /\ id \in DOMAIN users
            /\ users[id].email = Folded(trim(resp.req.email))
            /\ \A t \in now..MaxTime :
                  t < token.exp =>
                      LET g == authRequired(Bearer(token), t)
                      IN  g.pass /\ g.userId = id

\* PUT /user acts for the subject of the token it was given
ActsForSubject ==
    (resp.op = "PUT /user" /\ resp.gate.pass) =>
        /\ resp.gate.userId = resp.req.auth.cred.sub
        /\ resp.status = 200 => resp.body[1].user.id = resp.req.auth.cred.sub

\* and writes to no other user
WritesOnlySubject ==
    PutUserAnswered =>
        \A j \in DOMAIN users : j # resp'.gate.userId => users'[j] = users[j]

\* C27: for every user id, a token issued for that id and verified before
\* its expiry yields that id as subject; the token a login or a
\* registration returns makes the bearer gate see the user of that answer,
\* and PUT /user then reads and writes that user and no other.
C27_TokenSubject ==
    /\ [](RoundTrip /\ IssuedForCaller /\ ActsForSubject)
    /\ [][WritesOnlySubject]_vars

\* the user a registration created changes the profile with a token of
\* that id
C27_Witness ==
    /\ resp.op = "PUT /user"
    /\ resp.status = 200
    /\ resp.gate.userId = 3
    /\ resp.body[1].user.id = 3
    /\ users[3].firstName = <<"E", "v", "a">>

\* ------------------------------------------------ hidden listing claims

\* C29: every stored listing with isVisible = false has visibleUntil =
\* null: creation stores null, a toggle with isVisible = false stores null
\* whatever visibleUntil it carries, and no other operation writes the field.
C29_HiddenHasNoUntil ==
    \A i \in DOMAIN pools :
        pools[i].isVisible = FALSE => pools[i].visibleUntil = Null

\* a listing that was visible until a date has been hidden by a toggle
\* that carried a date too
C29_Witness ==
    /\ resp.op = "PUT /pools/:id/visibility"
    /\ resp.status = 200
    /\ resp.req.isVisible = FALSE
    /\ resp.req.visibleUntil = <<"iso", 1>>
    /\ pools[resp.req.id[2]].isVisible = FALSE
    /\ pools[resp.req.id[2]].visibleUntil = Null
    /\ pools[resp.req.id[2]].updatedAt = Date(now)
    /\ now > 0

\* ------------------------------------------------- preview token claims

\* the Authorization header carries a text that verifyAccess refuses at
\* time t: expired, malformed or signed with another key
UnverifiableToken(h, t) ==
    LET tk == previewToken(h)
    IN  tk.present /\ ~verifyAccess(tk.text, t).ok

\* what the same request gets without an Authorization header
AsAnonymous(q) == GetPoolAnswer(q, NoHeader)

\* C30: GET /pool never answers 401, and a request whose token is expired,
\* malformed or wrongly signed gets the status, message and body of the
\* same request without a token: 200 with the listing when it is publicly
\* visible, 404 'Pool not found' otherwise.
C30_BadTokenIsNoToken ==
    resp.op = "GET /pool" =>
        /\ resp.status # 401
        /\ (resp.message # "Invalid id" /\ resp.req.auth # UnreadHeader
              /\ UnverifiableToken(resp.req.auth, now)) =>
                /\ resp.status = AsAnonymous(resp.req.id).status
                /\ resp.message = AsAnonymous(resp.req.id).message
                /\ resp.body = AsAnonymous(resp.req.id).body
                /\ resp.status = IF isPublic(pools[trimId(resp.req.id)[2]], now)
                                 THEN 200 ELSE 404

\* the owner asks for a listing that is not public with a token that has
\* expired, and is answered as anybody
C30_Witness ==
    /\ resp.op = "GET /pool"
    /\ resp.status = 404
    /\ resp.req.auth # UnreadHeader
    /\ resp.req.auth.scheme = "Bearer"
    /\ resp.req.auth.cred.kind = "jwt"
    /\ resp.req.auth.cred.key = JWT_SECRET
    /\ resp.req.auth.cred.exp <= now
    /\ resp.req.auth.cred.sub = pools[trimId(resp.req.id)[2]].userId

====
